---------------------------- MODULE Spec2Model ----------------------------
(***************************************************************************)
(* Hodograph Analysis Tool.                                                *)
(*                                                                         *)
(* Part I models the browser client src/static/js/app.js (first script,    *)
(* lines 1-687) together with the markup of src/templates/index.html: the  *)
(* page-level variables, the DOM state the handlers read and write, and    *)
(* every await of the async handlers as a separate step, so that responses *)
(* interleave with user events.                                            *)
(*                                                                         *)
(* Part II models the storm-relative kinematics engine (normalizer, storm  *)
(* motion resolver, transform, helicity, shear) as pure operators.         *)
(***************************************************************************)
EXTENDS Integers, Sequences, FiniteSets, Bags, TLC

(***************************************************************************)
(* Optional values: JavaScript null / NaN / '' is the empty tuple, a       *)
(* present value x is <<x>>.                                               *)
(***************************************************************************)
Null == << >>

Some(x) == << x >>

IsNull(o) == o = << >>

Val(o) == o[1]

(***************************************************************************)
(* Bounds of the model.                                                    *)
(***************************************************************************)
\* analysis calls (generateCompleteAnalysis) in flight at the same time
MaxCalls == 1

\* loadVadDataAutomatically fetches, and loadWarnings fetches, in flight
MaxPending == 1

\* loadNearbyMetarSites fetches in flight
MaxMetarSitesPending == 2

\* resetApplication calls in flight at the same time
MaxResets == 1

(***************************************************************************)
(* Inputs.                                                                 *)
(***************************************************************************)
\* radar sites returned by /api/radar-sites
Sites == {"KTLX", "KFWS"}

\* METAR stations returned by /api/metar-sites
MetarIds == {<<"K", "O", "K", "C">>}

\* texts typed into the metarStation field (maxlength 4, index.html 41)
MetarTexts == { << >>, <<"k", "o", "k", "c">> }

\* values of the stormDirection / stormSpeed fields, entered together; the
\* fields are of type number (index.html 45, 49): the value of a field whose
\* text is not a number is the empty text
StormTexts ==
    { << << >>, << >> >>,
      << <<"0">>, <<"0">> >>,
      << <<"3", "6", "0">>, <<"1", "0", "0">> >>,
      << << >>, <<"1", "0", "1">> >> }

\* wind reports /api/metar/<id> can answer with
MetarResults == { [direction |-> 180, speed |-> 10] }

\* warning lists /api/warnings can answer with (the drawable warnings)
WarningResponses == { {}, {"W1"} }

(***************************************************************************)
(* String helpers of the handlers.                                         *)
(***************************************************************************)
Digits == {"0", "1", "2", "3", "4", "5", "6", "7", "8", "9"}

DigitVal(c) ==
    CASE c = "0" -> 0 [] c = "1" -> 1 [] c = "2" -> 2 [] c = "3" -> 3
      [] c = "4" -> 4 [] c = "5" -> 5 [] c = "6" -> 6 [] c = "7" -> 7
      [] c = "8" -> 8 [] c = "9" -> 9

RECURSIVE DigitPrefix(_)
\* the longest prefix of digits of a text
DigitPrefix(t) ==
    IF t = << >> \/ Head(t) \notin Digits THEN << >>
    ELSE <<Head(t)>> \o DigitPrefix(Tail(t))

RECURSIVE DigitsValue(_)
DigitsValue(ds) ==
    IF ds = << >> THEN 0
    ELSE 10 * DigitsValue(SubSeq(ds, 1, Len(ds) - 1)) + DigitVal(ds[Len(ds)])

\* parseFloat on texts without fraction or exponent: an optional sign, then
\* the leading digits; NaN (Null) when no digit follows.
ParseFloat(t) ==
    LET neg  == t # << >> /\ Head(t) = "-"
        body == IF t # << >> /\ Head(t) \in {"-", "+"} THEN Tail(t) ELSE t
        ds   == DigitPrefix(body)
    IN  IF ds = << >> THEN Null
        ELSE Some(IF neg THEN 0 - DigitsValue(ds) ELSE DigitsValue(ds))

RECURSIVE TrimLeft(_)
TrimLeft(t) == IF t # << >> /\ Head(t) = " " THEN TrimLeft(Tail(t)) ELSE t

RECURSIVE TrimRight(_)
TrimRight(t) ==
    IF t # << >> /\ t[Len(t)] = " " THEN TrimRight(SubSeq(t, 1, Len(t) - 1)) ELSE t

LowerCase == <<"a", "b", "c", "d", "e", "f", "g", "h", "i", "j", "k", "l", "m",
               "n", "o", "p", "q", "r", "s", "t", "u", "v", "w", "x", "y", "z">>

UpperCase == <<"A", "B", "C", "D", "E", "F", "G", "H", "I", "J", "K", "L", "M",
               "N", "O", "P", "Q", "R", "S", "T", "U", "V", "W", "X", "Y", "Z">>

\* the upper-case form of a character: of a letter a-z its capital, of any
\* other character of the model the character itself
UpperChar(c) ==
    IF \E i \in 1..26 : LowerCase[i] = c
    THEN UpperCase[CHOOSE i \in 1..26 : LowerCase[i] = c]
    ELSE c

\* value.trim().toUpperCase()
TrimUpper(t) ==
    LET s == TrimLeft(TrimRight(t)) IN [i \in 1..Len(s) |-> UpperChar(s[i])]

\* calculateDistance(...) <= 100 for the stations of the model
NearbyMetar(site) == IF site = "KTLX" THEN MetarIds ELSE {}

(***************************************************************************)
(* State.                                                                  *)
(***************************************************************************)
VARIABLES
    selectedSite,        \* Null or <<site id>>
    metarData,           \* Null or <<[direction, speed, station_id]>>
    stormMotion,         \* Null or <<[direction, speed]>>
    vadDataLoaded,
    currentTab,
    radarSites,          \* the sites whose markers are on the map
    metarMarkers,        \* the METAR ids of the markers in the array
    metarOnMap,          \* those whose marker is on the current map
    metarStation,        \* value of the input fields
    stormDirection,
    stormSpeed,
    showHalfKm,
    plotBtnDisabled,     \* disabled attribute of the buttons
    hodographTabDisabled,
    mobileHodographTabDisabled,
    active,              \* the elements carrying the class 'active'
    siteInfo,            \* innerHTML of the display elements
    vadStatus,
    hodographDisplay,
    analysisDetails,
    parametersDisplay,
    mobileHodographDisplay,
    mobileAnalysisDetails,
    mobileParametersDisplay,
    lastMsg,             \* type of the last message appended to statusMessages
    isMobile,            \* window.innerWidth <= 1024
    calls,               \* bag of generateCompleteAnalysis calls at an await
    vadAuto,             \* bag of sites with a loadVadDataAutomatically fetch pending
    metarSitesReq,       \* bag of sites with a loadNearbyMetarSites fetch pending
    radarSitesReq,       \* loadRadarSites calls awaiting /api/radar-sites
    resets,              \* resetApplication calls awaiting /api/reset
    warningsReq,         \* loadWarnings calls awaiting /api/warnings
    showWarnings,        \* checked state of the Show Warnings box
    warningLayers,       \* the warning layers held in warningLayers
    mapContainer,        \* id of the element holding the Leaflet map
    engIn,               \* Part II: inputs of the engine call
    engOut,              \* Part II: its result
    metarIn,             \* Part III: station id and provider answer of a get_metar call
    metarOut,            \* Part III: the tuple get_metar returned
    hodographData,       \* Part III: the response handed to the parameters renderer
    parametersHtml       \* Part III: the lines shown in parametersDisplay by it

globals == <<selectedSite, metarData, stormMotion, vadDataLoaded, currentTab>>

mapState ==
    <<radarSites, metarMarkers, metarOnMap, warningLayers, mapContainer>>

inputs == <<metarStation, stormDirection, stormSpeed, showHalfKm, showWarnings>>

buttons == <<plotBtnDisabled, hodographTabDisabled, mobileHodographTabDisabled>>

desktopDisplays == <<hodographDisplay, analysisDetails, parametersDisplay>>

mobileDisplays ==
    <<mobileHodographDisplay, mobileAnalysisDetails, mobileParametersDisplay>>

statusDisplays == <<siteInfo, vadStatus>>

pending == <<calls, vadAuto, metarSitesReq, radarSitesReq, resets, warningsReq>>

engine == <<engIn, engOut>>
units == <<metarIn, metarOut, hodographData, parametersHtml>>

vars ==
    <<globals, mapState, inputs, buttons, active, statusDisplays,
      desktopDisplays, mobileDisplays, lastMsg, isMobile, pending, engine, units>>

(***************************************************************************)
(* The DOM of index.html.                                                  *)
(***************************************************************************)
\* buttons of class tab-btn (index.html 74-75), named by id or role
TabBtns == {"tabBtnMap", "hodographTab"}

\* buttons of class mobile-tab-btn (index.html 20-22)
MobileTabBtns == {"mobileTabControls", "mobileTabMap", "mobileHodographTab"}

\* elements of class tab-pane (index.html 81, 86)
TabPanes == {"mapTab", "hodographPane"}

\* .controls-panel, .mobile-map-panel, .mobile-hodograph-panel
MobilePanels == {"controlsPanel", "mapPanel", "hodographPanel"}

\* the elements index.html gives the class active
InitialActive == {"mobileTabControls", "controlsPanel", "tabBtnMap", "mapTab"}

\* document.querySelector('[data-tab="t"]'): the first element of the
\* document with that attribute; the mobile buttons (lines 20-22) precede
\* the desktop ones (lines 74-75).
FirstWithDataTab(t) ==
    CASE t = "controls"  -> "mobileTabControls"
      [] t = "map"       -> "mobileTabMap"
      [] t = "hodograph" -> "mobileHodographTab"

\* document.querySelector('.mobile-tab-btn[data-tab="t"]')
MobileBtnWithDataTab(t) ==
    CASE t = "controls"  -> "mobileTabControls"
      [] t = "map"       -> "mobileTabMap"
      [] t = "hodograph" -> "mobileHodographTab"

\* the data-tab attribute of a tab button
DataTab(b) ==
    CASE b = "tabBtnMap"          -> "map"
      [] b = "hodographTab"       -> "hodograph"
      [] b = "mobileTabControls"  -> "controls"
      [] b = "mobileTabMap"       -> "map"
      [] b = "mobileHodographTab" -> "hodograph"

\* showLoading / hideLoading on the set of active elements
ShowLoading(a) == a \cup {"loadingOverlay"}

HideLoading(a) == a \ {"loadingOverlay"}

\* the class changes of switchTab(tabName)
SwitchTabActive(a, tabName) ==
    LET a1 == (a \ TabBtns) \cup {FirstWithDataTab(tabName)}
        a2 == a1 \ TabPanes
    IN  IF tabName = "map" THEN a2 \cup {"mapTab"}
        ELSE IF tabName = "hodograph" THEN a2 \cup {"hodographPane"}
        ELSE a2

\* switchMobileTab without the removal of the class from the panels
SwitchMobileTabActiveKept(a, tabName) ==
    LET a1 == (a \ MobileTabBtns) \cup {MobileBtnWithDataTab(tabName)}
    IN  IF tabName = "controls" THEN a1 \cup {"controlsPanel"}
        ELSE IF tabName = "map" THEN a1 \cup {"mapPanel"}
        ELSE IF tabName = "hodograph" THEN a1 \cup {"hodographPanel"}
        ELSE a1

\* the class changes of switchMobileTab(tabName)
SwitchMobileTabActive(a, tabName) ==
    LET a1 == (a \ MobileTabBtns) \cup {MobileBtnWithDataTab(tabName)}
        a2 == a1 \ MobilePanels
    IN  IF tabName = "controls" THEN a2 \cup {"controlsPanel"}
        ELSE IF tabName = "map" THEN a2 \cup {"mapPanel"}
        ELSE IF tabName = "hodograph" THEN a2 \cup {"hodographPanel"}
        ELSE a2

\* What the style sheet shows (style.css 188-202, 499-530, 596-619).
ControlsVisible == ~isMobile \/ "controlsPanel" \in active

MapVisible ==
    IF isMobile THEN mapContainer = "mobileMap" /\ "mapPanel" \in active
    ELSE mapContainer = "map" /\ "mapTab" \in active

\* The loading overlay covers the page (style.css 436-452): pointer events
\* reach the map only while it is hidden.  Focused buttons and fields still
\* take keyboard input.
PointerFree == "loadingOverlay" \notin active

(***************************************************************************)
(* Page load: the DOMContentLoaded handler has run (app.js 15-29).  The    *)
(* radar-sites and warnings requests are awaiting their responses.         *)
(***************************************************************************)
EngineIdle == engIn = Null /\ engOut = Null
UnitsIdle ==
    /\ metarIn = Null /\ metarOut = Null
    /\ hodographData = Null /\ parametersHtml = {}

AppInit ==
    /\ selectedSite = Null /\ metarData = Null /\ stormMotion = Null
    /\ vadDataLoaded = FALSE
    /\ isMobile \in BOOLEAN
    /\ currentTab = IF isMobile THEN "controls" ELSE "map"
    /\ radarSites = {} /\ metarMarkers = {} /\ metarOnMap = {}
    /\ warningLayers = {}
    /\ mapContainer = IF isMobile THEN "mobileMap" ELSE "map"
    /\ metarStation = << >> /\ stormDirection = << >> /\ stormSpeed = << >>
    /\ showHalfKm = TRUE /\ showWarnings = TRUE
    /\ plotBtnDisabled = TRUE
    /\ hodographTabDisabled = TRUE /\ mobileHodographTabDisabled = TRUE
    /\ active = ShowLoading(InitialActive)
    /\ siteInfo = Null /\ vadStatus = "empty"
    /\ hodographDisplay = "placeholder" /\ analysisDetails = Null
    /\ parametersDisplay = "empty"
    /\ mobileHodographDisplay = "placeholder" /\ mobileAnalysisDetails = Null
    /\ mobileParametersDisplay = "empty"
    /\ lastMsg = "none"
    /\ calls = EmptyBag /\ vadAuto = EmptyBag /\ metarSitesReq = EmptyBag
    /\ radarSitesReq = 1 /\ resets = 0 /\ warningsReq = 1

(***************************************************************************)
(* Requests issued by helper functions.                                    *)
(***************************************************************************)
AddTo(bag, x) == bag (+) SetToBag({x})

RemoveFrom(bag, x) == bag (-) SetToBag({x})

\* loadRadarSites, after its await (app.js 190-196)
RadarSitesResponse(ok) ==
    /\ radarSitesReq > 0
    /\ radarSitesReq' = radarSitesReq - 1
    /\ IF ok
         THEN radarSites' = Sites /\ UNCHANGED lastMsg
         ELSE lastMsg' = "error" /\ UNCHANGED radarSites
    /\ active' = HideLoading(active)
    /\ UNCHANGED <<globals, metarMarkers, metarOnMap, warningLayers,
                   mapContainer, inputs,
                   buttons, statusDisplays, desktopDisplays, mobileDisplays,
                   isMobile, calls, vadAuto, metarSitesReq, resets,
                   warningsReq, engine, units>>

\* loadWarnings, after its await (app.js 313-349); layers is the set of
\* drawable warnings of the response, Null a rejected fetch
WarningsResponse(layers) ==
    /\ warningsReq > 0
    /\ warningsReq' = warningsReq - 1
    /\ warningLayers' = IF IsNull(layers) THEN warningLayers ELSE Val(layers)
    /\ UNCHANGED <<globals, radarSites, metarMarkers, metarOnMap,
                   mapContainer, inputs,
                   buttons, active, statusDisplays, desktopDisplays,
                   mobileDisplays, lastMsg, isMobile, calls, vadAuto,
                   metarSitesReq, radarSitesReq, resets, engine, units>>

\* selectRadarSite(site) up to the awaits of the two loaders it starts
\* (app.js 227-251, 254-256, 469-473)
SelectRadarSite(site) ==
    /\ site \in radarSites
    /\ MapVisible /\ PointerFree
    /\ BagCardinality(vadAuto) < MaxPending
    /\ BagCardinality(metarSitesReq) < MaxMetarSitesPending
    /\ selectedSite' = Some(site)
    /\ vadDataLoaded' = FALSE
    /\ siteInfo' = Some(site)
    /\ plotBtnDisabled' = TRUE
    /\ metarSitesReq' = AddTo(metarSitesReq, site)
    /\ vadStatus' = "loading"
    /\ vadAuto' = AddTo(vadAuto, site)
    /\ lastMsg' = "success"
    /\ UNCHANGED <<metarData, stormMotion, currentTab, mapState, inputs,
                   hodographTabDisabled, mobileHodographTabDisabled, active,
                   desktopDisplays, mobileDisplays, isMobile, calls,
                   radarSitesReq, resets, warningsReq, engine, units>>

\* loadVadDataAutomatically(site), after its await (app.js 474-490)
VadAutoResponse(site, outcome) ==
    /\ site \in BagToSet(vadAuto)
    /\ vadAuto' = RemoveFrom(vadAuto, site)
    /\ CASE outcome = "ok" ->
              /\ vadStatus' = "loaded"
              /\ vadDataLoaded' = TRUE
              /\ plotBtnDisabled' = FALSE
              /\ lastMsg' = "success"
         [] outcome = "error" ->
              /\ vadStatus' = "error"
              /\ vadDataLoaded' = FALSE
              /\ UNCHANGED <<plotBtnDisabled, lastMsg>>
         [] outcome = "reject" ->
              /\ vadStatus' = "fetcherror"
              /\ vadDataLoaded' = FALSE
              /\ lastMsg' = "error"
              /\ UNCHANGED plotBtnDisabled
    /\ UNCHANGED <<selectedSite, metarData, stormMotion, currentTab, mapState,
                   inputs, hodographTabDisabled, mobileHodographTabDisabled,
                   active, siteInfo, desktopDisplays, mobileDisplays, isMobile,
                   calls, metarSitesReq, radarSitesReq, resets, warningsReq,
                   engine, units>>

\* loadNearbyMetarSites(site), after its awaits (app.js 256-292).  "ok": the
\* body is the list of stations; "reject": the fetch is rejected or the body
\* is not JSON, the catch of line 290 runs before anything is changed;
\* "notlist": the body is JSON but not a list of stations, the markers are
\* removed (260-261) and line 264 or 265 throws
MetarSitesResponse(site, outcome) ==
    /\ site \in BagToSet(metarSitesReq)
    /\ metarSitesReq' = RemoveFrom(metarSitesReq, site)
    /\ CASE outcome = "ok" ->
              /\ metarMarkers' = NearbyMetar(site)
              /\ metarOnMap' = NearbyMetar(site)
         [] outcome = "notlist" ->
              /\ metarMarkers' = {}
              /\ metarOnMap' = {}
         [] outcome = "reject" ->
              UNCHANGED <<metarMarkers, metarOnMap>>
    /\ UNCHANGED <<globals, radarSites, warningLayers, mapContainer, inputs,
                   buttons, active, statusDisplays, desktopDisplays,
                   mobileDisplays, lastMsg, isMobile, calls, vadAuto,
                   radarSitesReq, resets, warningsReq, engine, units>>

\* click on a METAR marker of the map (app.js 282-284)
ClickMetarMarker(m) ==
    /\ m \in metarOnMap
    /\ MapVisible /\ PointerFree
    /\ metarStation' = m
    /\ UNCHANGED <<globals, mapState, stormDirection, stormSpeed, showHalfKm,
                   showWarnings, buttons, active, statusDisplays,
                   desktopDisplays, mobileDisplays, lastMsg, isMobile, pending,
                   engine, units>>

\* the user types into the METAR field (index.html 41)
EnterMetarStation(t) ==
    /\ ControlsVisible
    /\ metarStation # t
    /\ metarStation' = t
    /\ UNCHANGED <<globals, mapState, stormDirection, stormSpeed, showHalfKm,
                   showWarnings, buttons, active, statusDisplays,
                   desktopDisplays, mobileDisplays, lastMsg, isMobile, pending,
                   engine, units>>

\* the user types into the storm fields (index.html 45, 49)
EnterStorm(p) ==
    /\ ControlsVisible
    /\ <<stormDirection, stormSpeed>> # p
    /\ stormDirection' = p[1]
    /\ stormSpeed' = p[2]
    /\ UNCHANGED <<globals, mapState, metarStation, showHalfKm, showWarnings,
                   buttons, active, statusDisplays, desktopDisplays,
                   mobileDisplays, lastMsg, isMobile, pending, engine, units>>

\* the user checks or unchecks Show Half-km Markers (index.html 53)
ToggleHalfKm ==
    /\ ControlsVisible
    /\ showHalfKm' = ~showHalfKm
    /\ UNCHANGED <<globals, mapState, metarStation, stormDirection, stormSpeed,
                   showWarnings, buttons, active, statusDisplays,
                   desktopDisplays, mobileDisplays, lastMsg, isMobile, pending,
                   engine, units>>

(***************************************************************************)
(* Tab navigation (app.js 384-466).                                        *)
(***************************************************************************)
\* click on a desktop tab button: switchTab(data-tab)
ClickTab(b) ==
    /\ b \in TabBtns
    /\ ~isMobile
    /\ ~(b = "hodographTab" /\ hodographTabDisabled)
    /\ active' = SwitchTabActive(active, DataTab(b))
    /\ currentTab' = DataTab(b)
    /\ UNCHANGED <<selectedSite, metarData, stormMotion, vadDataLoaded,
                   mapState, inputs, buttons, statusDisplays, desktopDisplays,
                   mobileDisplays, lastMsg, isMobile, pending, engine, units>>

\* initializeMobileMap (app.js 81-112) with recreateMetarMarkers and
\* recreateWarningLayers: the map is rebuilt in #mobileMap, the METAR
\* markers and warning layers are dropped and requested again
MobileMapReloadsMetar == metarMarkers # {} /\ ~IsNull(selectedSite)

MobileMapReloadsWarnings == warningLayers # {} /\ showWarnings

InitializeMobileMap ==
    /\ mapContainer' = "mobileMap"
    /\ metarMarkers' = {}
    /\ metarOnMap' = {}
    /\ warningLayers' = {}
    /\ metarSitesReq' = IF MobileMapReloadsMetar
                          THEN AddTo(metarSitesReq, Val(selectedSite))
                          ELSE metarSitesReq
    /\ warningsReq' = IF MobileMapReloadsWarnings
                        THEN warningsReq + 1 ELSE warningsReq
    /\ UNCHANGED radarSites

\* copyHodographToMobile (app.js 149-166)
CopyHodographToMobile ==
    /\ mobileHodographDisplay' = hodographDisplay
    /\ mobileAnalysisDetails' = analysisDetails
    /\ mobileParametersDisplay' = parametersDisplay

\* click on a mobile tab button: switchMobileTab(data-tab)
ClickMobileTab(b) ==
    /\ b \in MobileTabBtns
    /\ isMobile
    /\ ~(b = "mobileHodographTab" /\ mobileHodographTabDisabled)
    /\ b = "mobileTabMap" /\ MobileMapReloadsMetar
         => BagCardinality(metarSitesReq) < MaxMetarSitesPending
    /\ b = "mobileTabMap" /\ MobileMapReloadsWarnings
         => warningsReq < MaxPending
    /\ active' = SwitchMobileTabActive(active, DataTab(b))
    /\ currentTab' = DataTab(b)
    /\ IF b = "mobileTabMap"
         THEN InitializeMobileMap
         ELSE UNCHANGED <<mapState, metarSitesReq, warningsReq>>
    /\ IF b = "mobileHodographTab"
         THEN CopyHodographToMobile
         ELSE UNCHANGED mobileDisplays
    /\ UNCHANGED <<selectedSite, metarData, stormMotion, vadDataLoaded, inputs,
                   buttons, statusDisplays, desktopDisplays, lastMsg, isMobile,
                   calls, vadAuto, radarSitesReq, resets, engine, units>>

(***************************************************************************)
(* generateCompleteAnalysis (app.js 500-611).  A call is a record of its   *)
(* position and its local variables:                                       *)
(*   pc        "vad", "metar" or "hodo": the fetch it is awaiting          *)
(*   vadSite   the site of the VAD fetch of line 510                       *)
(*   station   metarStation (line 523), once read                          *)
(*   metarInfo, stormInfo   the texts of lines 532 and 549, '' as Null     *)
(*   stormDir, stormSpd     stormDirection, stormSpeed (lines 542-543)     *)
(*   req       the parameters of the hodograph request of line 571         *)
(***************************************************************************)
NewCall(site) ==
    [pc |-> "vad", vadSite |-> site, station |-> Null, metarInfo |-> Null,
     stormDir |-> Null, stormSpd |-> Null, stormInfo |-> Null, req |-> Null]

\* a range condition that leaves out the upper ends
StormValidOpen(d, s) ==
    /\ ~IsNull(d) /\ ~IsNull(s)
    /\ Val(d) >= 0 /\ Val(d) < 360
    /\ Val(s) >= 0 /\ Val(s) < 100

\* the condition of lines 545-547 on the two parsed numbers
StormValid(d, s) ==
    /\ ~IsNull(d) /\ ~IsNull(s)
    /\ Val(d) >= 0 /\ Val(d) <= 360
    /\ Val(s) >= 0 /\ Val(s) <= 100

\* the URLSearchParams of lines 555-569
BuildParams(site, half, sm, md) ==
    [site_id      |-> site,
     show_half_km |-> half,
     storm        |-> IF IsNull(sm) THEN Null
                      ELSE Some([storm_direction |-> Val(sm).direction,
                                 storm_speed     |-> Val(sm).speed]),
     metar        |-> IF IsNull(md) THEN Null
                      ELSE Some([metar_direction |-> Val(md).direction,
                                 metar_speed     |-> Val(md).speed,
                                 metar_station   |-> Val(md).station_id])]

\* the assignment of line 548, guarded by the condition before it
StormMotionAfter(d, s) ==
    IF StormValid(d, s) THEN Some([direction |-> Val(d), speed |-> Val(s)])
    ELSE stormMotion

\* the text of line 549
StormInfoOf(d, s) ==
    IF StormValid(d, s) THEN Some([speed |-> Val(s), direction |-> Val(d)])
    ELSE Null

\* Steps 3 and 4 (lines 540-571), which run without an await after step 2.
\* c0 is the call as it is in the bag, c1 the call with the locals of step
\* 2, md the value of metarData after step 2, msg the last message shown.
\* With no site selected line 556 throws a TypeError, caught at line 607.
StormAndRequest(c0, c1, md, msg) ==
    LET d  == ParseFloat(stormDirection)
        s  == ParseFloat(stormSpeed)
        sm == StormMotionAfter(d, s)
        c2 == [c1 EXCEPT !.stormDir = d, !.stormSpd = s,
                         !.stormInfo = StormInfoOf(d, s)]
    IN  /\ stormMotion' = sm
        /\ metarData' = md
        /\ IF IsNull(selectedSite)
             THEN /\ calls' = RemoveFrom(calls, c0)
                  /\ lastMsg' = "error"
                  /\ active' = HideLoading(active)
             ELSE /\ calls' = AddTo(RemoveFrom(calls, c0),
                               [c2 EXCEPT !.pc = "hodo",
                                  !.req = Some(BuildParams(Val(selectedSite),
                                                   showHalfKm, sm, md))])
                  /\ lastMsg' = msg
                  /\ active' = ShowLoading(active)

\* click on the plot button, up to the await of line 510
ClickPlot ==
    /\ ~plotBtnDisabled
    /\ ControlsVisible
    /\ IF IsNull(selectedSite)
         THEN /\ lastMsg' = "error"
              /\ UNCHANGED <<active, calls>>
         ELSE /\ BagCardinality(calls) < MaxCalls
              /\ active' = ShowLoading(active)
              /\ calls' = AddTo(calls, NewCall(Val(selectedSite)))
              /\ UNCHANGED lastMsg
    /\ UNCHANGED <<globals, mapState, inputs, buttons, statusDisplays,
                   desktopDisplays, mobileDisplays, isMobile, vadAuto,
                   metarSitesReq, radarSitesReq, resets, warningsReq, engine, units>>

\* the VAD response of a call arrives (lines 511-538 and on)
VadResponse(c, outcome) ==
    /\ c \in BagToSet(calls) /\ c.pc = "vad"
    /\ IF outcome \in {"error", "reject"}
         THEN /\ calls' = RemoveFrom(calls, c)
              /\ lastMsg' = "error"
              /\ active' = HideLoading(active)
              /\ UNCHANGED <<stormMotion, metarData>>
         ELSE LET st == TrimUpper(metarStation)
              IN  IF st # << >>
                    THEN /\ calls' = AddTo(RemoveFrom(calls, c),
                                       [c EXCEPT !.pc = "metar",
                                                 !.station = Some(st)])
                         /\ lastMsg' = "info"
                         /\ UNCHANGED <<stormMotion, metarData, active>>
                    ELSE StormAndRequest(c, c, metarData, "info")
    /\ UNCHANGED <<selectedSite, vadDataLoaded, currentTab, mapState, inputs,
                   buttons, statusDisplays, desktopDisplays, mobileDisplays,
                   isMobile, vadAuto, metarSitesReq, radarSitesReq, resets,
                   warningsReq, engine, units>>

\* the METAR lookup of a call answers with a wind report (lines 527-534)
MetarLookupOk(c, r) ==
    /\ c \in BagToSet(calls) /\ c.pc = "metar"
    /\ StormAndRequest(c,
           [c EXCEPT !.metarInfo =
                Some([speed |-> r.speed, direction |-> r.direction])],
           Some([direction |-> r.direction, speed |-> r.speed,
                 station_id |-> Val(c.station)]),
           "info")
    /\ UNCHANGED <<selectedSite, vadDataLoaded, currentTab, mapState, inputs,
                   buttons, statusDisplays, desktopDisplays, mobileDisplays,
                   isMobile, vadAuto, metarSitesReq, radarSitesReq, resets,
                   warningsReq, engine, units>>

\* a failed lookup that ends the call with an error
MetarLookupAborts(c, how) ==
    /\ c \in BagToSet(calls) /\ c.pc = "metar"
    /\ how \in {"error", "reject"}
    /\ calls' = RemoveFrom(calls, c)
    /\ lastMsg' = "error"
    /\ active' = HideLoading(active)
    /\ UNCHANGED <<globals, mapState, inputs, buttons, statusDisplays,
                   desktopDisplays, mobileDisplays, isMobile, vadAuto,
                   metarSitesReq, radarSitesReq, resets, warningsReq,
                   engine, units>>

\* the METAR lookup answers with an error object, or the fetch is rejected
\* or unparsable (lines 529, 535-537)
MetarLookupFails(c, how) ==
    /\ c \in BagToSet(calls) /\ c.pc = "metar"
    /\ how \in {"error", "reject"}
    /\ StormAndRequest(c, c, metarData, lastMsg)
    /\ UNCHANGED <<selectedSite, vadDataLoaded, currentTab, mapState, inputs,
                   buttons, statusDisplays, desktopDisplays, mobileDisplays,
                   isMobile, vadAuto, metarSitesReq, radarSitesReq, resets,
                   warningsReq, engine, units>>

\* the text of lines 587-589
AnalysisDetailsOf(site, c) ==
    Some([site |-> site, metarInfo |-> c.metarInfo, stormInfo |-> c.stormInfo])

\* a handler that writes the image before it looks at the error
HodographResponseShown(c, outcome) ==
    /\ c \in BagToSet(calls) /\ c.pc = "hodo"
    /\ calls' = RemoveFrom(calls, c)
    /\ hodographDisplay' = "image"
    /\ lastMsg' = IF outcome = "ok" THEN "success" ELSE "error"
    /\ active' = HideLoading(active)
    /\ UNCHANGED <<globals, mapState, inputs, buttons, statusDisplays,
                   analysisDetails, parametersDisplay, mobileDisplays,
                   isMobile, vadAuto, metarSitesReq, radarSitesReq, resets,
                   warningsReq, engine, units>>

\* the hodograph response of a call arrives (lines 572-610).  With no site
\* selected line 587 throws after the displays of lines 578-584 are written.
HodographResponse(c, outcome) ==
    /\ c \in BagToSet(calls) /\ c.pc = "hodo"
    /\ calls' = RemoveFrom(calls, c)
    /\ IF outcome \in {"error", "reject"}
         THEN /\ lastMsg' = "error"
              /\ active' = HideLoading(active)
              /\ UNCHANGED <<currentTab, hodographTabDisabled,
                             mobileHodographTabDisabled, desktopDisplays,
                             mobileDisplays>>
         ELSE /\ hodographDisplay' = "image"
              /\ parametersDisplay' = "note"
              /\ mobileParametersDisplay' = "note"
              /\ IF IsNull(selectedSite)
                   THEN /\ lastMsg' = "error"
                        /\ active' = HideLoading(active)
                        /\ UNCHANGED <<currentTab, hodographTabDisabled,
                                       mobileHodographTabDisabled,
                                       analysisDetails, mobileHodographDisplay,
                                       mobileAnalysisDetails>>
                   ELSE /\ analysisDetails' =
                              AnalysisDetailsOf(Val(selectedSite), c)
                        /\ hodographTabDisabled' = FALSE
                        /\ mobileHodographTabDisabled' = FALSE
                        /\ currentTab' = "hodograph"
                        /\ IF isMobile
                             THEN /\ active' = HideLoading(
                                        SwitchMobileTabActive(active, "hodograph"))
                                  /\ mobileHodographDisplay' = hodographDisplay'
                                  /\ mobileAnalysisDetails' = analysisDetails'
                             ELSE /\ active' = HideLoading(
                                        SwitchTabActive(active, "hodograph"))
                                  /\ UNCHANGED <<mobileHodographDisplay,
                                                 mobileAnalysisDetails>>
                        /\ lastMsg' = "success"
    /\ UNCHANGED <<selectedSite, metarData, stormMotion, vadDataLoaded,
                   mapState, inputs, plotBtnDisabled, statusDisplays, isMobile,
                   vadAuto, metarSitesReq, radarSitesReq, resets, warningsReq,
                   engine, units>>

(***************************************************************************)
(* resetApplication (app.js 614-661).                                      *)
(***************************************************************************)
\* click on the reset button, up to the await of line 619
ClickReset ==
    /\ resets < MaxResets
    /\ resets' = resets + 1
    /\ active' = ShowLoading(active)
    /\ UNCHANGED <<globals, mapState, inputs, buttons, statusDisplays,
                   desktopDisplays, mobileDisplays, lastMsg, isMobile, calls,
                   vadAuto, metarSitesReq, radarSitesReq, warningsReq, engine, units>>

\* the /api/reset fetch settles: fulfilled with an OK status ("ok"),
\* fulfilled with another HTTP status ("status"), or rejected ("reject");
\* the response is not looked at (line 619)
ResetClient(outcome) ==
    /\ resets > 0
    /\ resets' = resets - 1
    /\ IF outcome \in {"ok", "status"}
         THEN /\ selectedSite' = Null /\ metarData' = Null
              /\ stormMotion' = Null
              /\ siteInfo' = Null /\ vadStatus' = "empty"
              /\ analysisDetails' = Null
              /\ hodographDisplay' = "placeholder"
              /\ parametersDisplay' = "empty"
              /\ plotBtnDisabled' = TRUE
              /\ hodographTabDisabled' = TRUE
              /\ mobileHodographTabDisabled' = TRUE
              /\ IF isMobile
                   THEN /\ active' = HideLoading(
                                SwitchMobileTabActive(active, "controls"))
                        /\ currentTab' = "controls"
                   ELSE /\ active' = HideLoading(SwitchTabActive(active, "map"))
                        /\ currentTab' = "map"
              /\ metarStation' = << >>
              /\ stormDirection' = << >> /\ stormSpeed' = << >>
              /\ metarMarkers' = {}
              /\ metarOnMap' = {}
              /\ lastMsg' = "success"
              /\ UNCHANGED <<vadDataLoaded, radarSites, warningLayers,
                             mapContainer, showHalfKm, showWarnings,
                             mobileDisplays>>
         ELSE /\ lastMsg' = "error"
              /\ active' = HideLoading(active)
              /\ UNCHANGED <<globals, mapState, inputs, buttons,
                             statusDisplays, desktopDisplays, mobileDisplays>>
    /\ UNCHANGED <<isMobile, calls, vadAuto, metarSitesReq, radarSitesReq,
                   warningsReq>>

ResetResponse(outcome) ==
    /\ ResetClient(outcome)
    /\ UNCHANGED <<engine, units>>

(***************************************************************************)
(* The client: user events and responses in any order.                     *)
(***************************************************************************)
\* Spec: the analysis flow in the desktop layout.  User events: selecting a
\* site, typing into the fields, the plot button, the reset button; and
\* every response of the requests they start.  The responses of
\* /api/metar-sites and /api/warnings, which only redraw the map, are left
\* outstanding; the tab buttons are not used.
Init == AppInit /\ ~isMobile /\ EngineIdle /\ UnitsIdle

Next ==
    \/ \E ok \in BOOLEAN : RadarSitesResponse(ok)
    \/ \E site \in Sites : SelectRadarSite(site)
    \/ \E site \in Sites, o \in {"ok", "error", "reject"} :
           VadAutoResponse(site, o)
    \/ \E t \in MetarTexts : EnterMetarStation(t)
    \/ \E p \in StormTexts : EnterStorm(p)
    \/ ToggleHalfKm
    \/ ClickPlot
    \/ \E c \in BagToSet(calls), o \in {"ok", "error", "reject"} :
           VadResponse(c, o)
    \/ \E c \in BagToSet(calls), r \in MetarResults : MetarLookupOk(c, r)
    \/ \E c \in BagToSet(calls), how \in {"error", "reject"} :
           MetarLookupFails(c, how)
    \/ \E c \in BagToSet(calls), o \in {"ok", "error", "reject"} :
           HodographResponse(c, o)
    \/ ClickReset
    \/ \E o \in {"ok", "status", "reject"} : ResetResponse(o)

Spec == Init /\ [][Next]_vars

(***************************************************************************)
(* Properties of the analysis flow.                                        *)
(***************************************************************************)
\* the storm inputs a call parsed are unusable: one of them is not a number
\* or lies outside 0..360 (direction) or 0..100 (speed)
StormInputUnusable(c) ==
    \/ IsNull(c.stormDir) \/ IsNull(c.stormSpd)
    \/ Val(c.stormDir) < 0 \/ Val(c.stormDir) > 360
    \/ Val(c.stormSpd) < 0 \/ Val(c.stormSpd) > 100

\* the calls whose hodograph request has been sent and not yet answered
Requested == { c \in BagToSet(calls) : c.pc = "hodo" }

\* C1: when the storm inputs of a call are empty, not numeric or out of
\* range, its hodograph request carries no storm_direction and no
\* storm_speed.
C1_NoStormParamsWhenUnusable ==
    \A c \in Requested :
        StormInputUnusable(c) => Val(c.req).storm = Null

\* C2: the hodograph request of a call carries metar_direction, metar_speed
\* and metar_station exactly when a METAR station was entered and its
\* lookup succeeded within that same call.
C2_MetarParamsIffLookedUp ==
    \A c \in Requested :
        (Val(c.req).metar # Null) <=> (c.metarInfo # Null)

\* C3: when the storm inputs of a call are numbers with 0 <= direction <=
\* 360 and 0 <= speed <= 100, its hodograph request carries exactly those
\* two values as storm_direction and storm_speed.
C3_ValidStormSent ==
    \A c \in Requested :
        ~StormInputUnusable(c) =>
            Val(c.req).storm = Some([storm_direction |-> Val(c.stormDir),
                                     storm_speed     |-> Val(c.stormSpd)])

\* a request carrying the largest admissible storm motion is in flight
C3_Witness ==
    \E c \in Requested :
        /\ c.stormDir = Some(360) /\ c.stormSpd = Some(100)
        /\ Val(c.req).storm = Some([storm_direction |-> 360,
                                    storm_speed     |-> 100])

\* C4: the site_id of the hodograph request of a call is the site whose VAD
\* data the call fetched at its start.
C4_RequestForFetchedSite ==
    \A c \in Requested : Val(c.req).site_id = c.vadSite

(***************************************************************************)
(* Part II.  The analysis engine (spec.md sections 3 and 4).  Its code is  *)
(* not among the sources, so its operations follow the engine design; the  *)
(* two formulas of src/unnamed/part_000 are taken from there.              *)
(*                                                                         *)
(* Numbers are exact.  Heights are metres.  Wind components are integers;  *)
(* a quantity that depends on the Bunkers deviation is kept in the form    *)
(*     x / den + K * kx,    K = deviation magnitude / |shear| > 0,         *)
(* and a value obtained by linear interpolation keeps the height gap of    *)
(* its bracketing levels as a scale instead of dividing by it.  All        *)
(* heights are multiples of 250 m and gaps are counted in such steps.      *)
(***************************************************************************)
\* raw observations in one Normalizer input
MaxObs == 3

\* levels of a profile handed to the kinematic components
MaxLevels == 3

\* top of the mean-wind layer of the Bunkers estimate (6 km)
MeanLayerTop == 6000

\* the VARIABLE sentinel of direction_deg, and a numeric direction
Variable == << >>

Deg(d) == <<d>>

ObsHeights == {0, 500, 1000}

ObsDirections == {Variable, Deg(90), Deg(180), Deg(360)}

ObsSpeeds == {-1, 2}

RawObservations ==
    [height_m : ObsHeights, direction_deg : ObsDirections, speed_kt : ObsSpeeds]

\* the lists of n raw observations, in any order
ObsLists(n) == [1..n -> RawObservations]

ProfileHeights == {0, 250, 500, 1000, 1500, 3000, 6000, 6500}

Components == {-1, 0, 1}

\* explicit storm motions of a call: none, westward at 1 kt, the zero
\* motion, and one outside the valid range
ExplicitMotions ==
    { Null,
      Some([direction_deg |-> 90, speed_kt |-> 1]),
      Some([direction_deg |-> 360, speed_kt |-> 0]),
      Some([direction_deg |-> 361, speed_kt |-> 1]) }

\* sine and cosine of the directions used here
Sin(d) == CASE d \in {0, 180, 360} -> 0 [] d = 90 -> 1 [] d = 270 -> -1

Cos(d) == CASE d \in {90, 270} -> 0 [] d \in {0, 360} -> 1 [] d = 180 -> -1

\* strictly increasing height lists whose lowest level is at most 500 m
HeightLists(n) ==
    { hs \in [1..n -> ProfileHeights] :
        /\ hs[1] <= 500
        /\ \A i \in 1..(n - 1) : hs[i] < hs[i + 1] }

\* the profile with heights hs and components us, vs
ProfileOf(hs, us, vs) ==
    [i \in 1..Len(hs) |-> [height_m |-> hs[i], u |-> us[i], v |-> vs[i]]]

(***************************************************************************)
(* 4.1 Profile Normalizer.                                                 *)
(***************************************************************************)
\* an observation passes validation
ValidObservation(o) ==
    /\ o.speed_kt >= 0
    /\ \/ o.direction_deg = Variable
       \/ Val(o.direction_deg) >= 0 /\ Val(o.direction_deg) < 360

InvalidObservation(o) == ~ValidObservation(o)

\* polar to Cartesian: u = -speed sin(dir), v = -speed cos(dir); a VARIABLE
\* direction counts as 0 degrees
ToVector(o) ==
    LET d == IF o.direction_deg = Variable THEN 0 ELSE Val(o.direction_deg)
    IN  [height_m |-> o.height_m,
         u |-> -(o.speed_kt * Sin(d)),
         v |-> -(o.speed_kt * Cos(d))]

HasDuplicateHeight(seq) ==
    \E i, j \in 1..Len(seq) : i < j /\ seq[i].height_m = seq[j].height_m

\* an insertion that appends
InsertLast(p, sorted) == Append(sorted, p)

\* insert a point into a list sorted by height
Insert(p, sorted) ==
    LET k == Cardinality({ i \in 1..Len(sorted) :
                             sorted[i].height_m < p.height_m })
    IN  SubSeq(sorted, 1, k) \o <<p>> \o SubSeq(sorted, k + 1, Len(sorted))

RECURSIVE SortByHeight(_)
SortByHeight(seq) ==
    IF seq = << >> THEN << >>
    ELSE Insert(Head(seq), SortByHeight(Tail(seq)))

\* the Normalizer: invalid observations are rejected one by one; duplicate
\* heights and fewer than two remaining observations are fatal
NormalizeObservations(obs) ==
    LET valid    == SelectSeq(obs, ValidObservation)
        rejected == SelectSeq(obs, InvalidObservation)
    IN  IF HasDuplicateHeight(valid)
          THEN [status |-> "DuplicateHeightError", profile |-> << >>,
                rejected |-> rejected]
        ELSE IF Len(valid) < 2
          THEN [status |-> "InsufficientDataError", profile |-> << >>,
                rejected |-> rejected]
        ELSE [status |-> "ok",
              profile |-> SortByHeight([i \in 1..Len(valid) |->
                                            ToVector(valid[i])]),
              rejected |-> rejected]

(***************************************************************************)
(* 4.2 Storm Motion Resolver.                                              *)
(***************************************************************************)
ExplicitValid(e) ==
    /\ ~IsNull(e)
    /\ Val(e).direction_deg >= 0 /\ Val(e).direction_deg <= 360
    /\ Val(e).speed_kt >= 0 /\ Val(e).speed_kt <= 100

\* a storm motion as a (u, v) vector, by the formula of the wind vectors
MotionVector(m) ==
    [u |-> -(m.speed_kt * Sin(m.direction_deg)),
     v |-> -(m.speed_kt * Cos(m.direction_deg))]

\* an integer vector as an exact quantity
Exact(x) ==
    [u |-> x.u, v |-> x.v, den |-> 1, ku |-> 0, kv |-> 0, finite |-> TRUE]

RECURSIVE SumVectors(_)
SumVectors(seq) ==
    IF seq = << >> THEN [u |-> 0, v |-> 0]
    ELSE LET r == SumVectors(Tail(seq))
         IN  [u |-> Head(seq).u + r.u, v |-> Head(seq).v + r.v]

InMeanLayer(p) == p.height_m <= MeanLayerTop

\* rotation by 90 degrees clockwise: north goes to east
RotateClockwise(x) == [u |-> x.v, v |-> -x.u]

\* a left-mover on the same side as the right-mover
LeftMoverAdded(sum, n, dev, fin) ==
    [u |-> sum.u, v |-> sum.v, den |-> n, ku |-> dev.u, kv |-> dev.v,
     finite |-> fin]

\* mean + K * dev for the right-mover, mean - K * dev for the left-mover
RightMover(sum, n, dev, fin) ==
    [u |-> sum.u, v |-> sum.v, den |-> n, ku |-> dev.u, kv |-> dev.v,
     finite |-> fin]

LeftMover(sum, n, dev, fin) ==
    [u |-> sum.u, v |-> sum.v, den |-> n, ku |-> -dev.u, kv |-> -dev.v,
     finite |-> fin]

\* steps 1-3 of the Bunkers estimate.  The unit vector of step 3 does not
\* exist for a zero shear vector: finite is FALSE then.
Bunkers(profile) ==
    LET layer == SelectSeq(profile, InMeanLayer)
        n     == Len(layer)
        sum   == SumVectors(layer)
        shear == [u |-> layer[n].u - layer[1].u, v |-> layer[n].v - layer[1].v]
        dev   == RotateClockwise(shear)
        fin   == shear # [u |-> 0, v |-> 0]
    IN  [mean        |-> [u |-> sum.u, v |-> sum.v, den |-> n],
         shear       |-> shear,
         right_mover |-> RightMover(sum, n, dev, fin),
         left_mover  |-> LeftMover(sum, n, dev, fin)]

TopHeight(profile) == profile[Len(profile)].height_m

(***************************************************************************)
(* 4.3 Storm-Relative Transform (src/unnamed/part_000: v_rel = v - c).     *)
(***************************************************************************)
\* a transform that adds the storm motion
TransformAdded(profile, m) ==
    [i \in 1..Len(profile) |->
        [height_m |-> profile[i].height_m,
         u   |-> m.den * profile[i].u + m.u,
         v   |-> m.den * profile[i].v + m.v,
         den |-> m.den, ku |-> m.ku, kv |-> m.kv, finite |-> m.finite]]

\* each vector minus the storm motion, at the same height; over the
\* denominator of the motion, u - m.u/den is (den * u - m.u)/den
Transform(profile, m) ==
    [i \in 1..Len(profile) |->
        [height_m |-> profile[i].height_m,
         u   |-> m.den * profile[i].u - m.u,
         v   |-> m.den * profile[i].v - m.v,
         den |-> m.den, ku |-> -m.ku, kv |-> -m.kv, finite |-> m.finite]]

(***************************************************************************)
(* 4.4 Helicity Integrator.                                                *)
(***************************************************************************)
\* the 2-D cross product a.u * b.v - a.v * b.u of two storm-relative
\* vectors (part_000: (v_rel,i x v_rel,i+1) . k), as
\* rat / den^2 + K * k1 / den + K^2 * k2
Cross(a, b) ==
    [rat |-> a.u * b.v - a.v * b.u,
     k1  |-> (a.u * b.kv - a.v * b.ku) + (a.ku * b.v - a.kv * b.u),
     k2  |-> a.ku * b.kv - a.kv * b.ku]

\* a height difference in steps of 250 m
Steps(dh) == dh \div 250

\* the number of levels of a series at or below height h
LevelsUpTo(series, h) ==
    Cardinality({ i \in 1..Len(series) : series[i].height_m <= h })

\* linear interpolation at height h between two levels, times their gap
Interpolate(lo, hi, h) ==
    LET wl == Steps(hi.height_m - h)
        wh == Steps(h - lo.height_m)
    IN  [height_m |-> h,
         u  |-> lo.u * wl + hi.u * wh,   v  |-> lo.v * wl + hi.v * wh,
         ku |-> lo.ku * wl + hi.ku * wh, kv |-> lo.kv * wl + hi.kv * wh,
         den |-> lo.den, finite |-> lo.finite /\ hi.finite]

\* the sum of the cross products of the first k levels' consecutive pairs
RECURSIVE CrossSum(_, _)
CrossSum(series, k) ==
    IF k < 2 THEN [rat |-> 0, k1 |-> 0, k2 |-> 0]
    ELSE LET r == CrossSum(series, k - 1)
             c == Cross(series[k - 1], series[k])
         IN  [rat |-> r.rat + c.rat, k1 |-> r.k1 + c.k1, k2 |-> r.k2 + c.k2]

\* SRH of the bin from the lowest level to height h, for a series that
\* reaches h: the pairs of the sampled levels up to h and, when h is not
\* sampled, the pair that ends at the vector interpolated at h.  The value
\* is (rat / den^2 + K * k1 / den + K^2 * k2) / scale.
SrhBin(series, h) ==
    LET k       == LevelsUpTo(series, h)
        sampled == series[k].height_m = h
        gap     == IF sampled THEN 1
                   ELSE Steps(series[k + 1].height_m - series[k].height_m)
        inner   == CrossSum(series, k)
        last    == IF sampled THEN [rat |-> 0, k1 |-> 0, k2 |-> 0]
                   ELSE Cross(series[k],
                              Interpolate(series[k], series[k + 1], h))
    IN  [rat   |-> gap * inner.rat + last.rat,
         k1    |-> gap * inner.k1 + last.k1,
         k2    |-> gap * inner.k2 + last.k2,
         den   |-> series[1].den,
         scale |-> gap,
         finite |-> series[1].finite]

(***************************************************************************)
(* 4.5 Shear Calculator.                                                   *)
(***************************************************************************)
\* bulk shear over depth d for a series that reaches d: the square of the
\* magnitude of (vector at d) - (vector at the lowest level), whose value
\* is sq / (den * scale)^2.  The deviation parts of the two vectors cancel.
BulkShear(series, d) ==
    LET k       == LevelsUpTo(series, d)
        sampled == series[k].height_m = d
        gap     == IF sampled THEN 1
                   ELSE Steps(series[k + 1].height_m - series[k].height_m)
        top     == IF sampled THEN series[k]
                   ELSE Interpolate(series[k], series[k + 1], d)
        du      == top.u - gap * series[1].u
        dv      == top.v - gap * series[1].v
    IN  [sq |-> du * du + dv * dv, den |-> series[1].den, scale |-> gap,
         finite |-> series[1].finite]

SrhFields == {"srh_0_5", "srh_0_1", "srh_0_3"}

ShearFields == {"shear_1km", "shear_3km", "shear_6km"}

\* the depth in metres a field needs
FieldDepth(f) ==
    CASE f = "srh_0_5" -> 500
      [] f \in {"srh_0_1", "shear_1km"} -> 1000
      [] f \in {"srh_0_3", "shear_3km"} -> 3000
      [] f = "shear_6km" -> 6000

\* a gating that asks for more than the depth
ReachesBeyond(series, f) == TopHeight(series) > FieldDepth(f)

\* a field is computable when the profile reaches its depth
Reaches(series, f) == TopHeight(series) >= FieldDepth(f)

\* the derived parameters: a field that is not computable is absent
DerivedParameters(series) ==
    [f \in { g \in SrhFields \cup ShearFields : Reaches(series, g) } |->
        IF f \in SrhFields THEN SrhBin(series, FieldDepth(f))
        ELSE BulkShear(series, FieldDepth(f))]

(***************************************************************************)
(* 4.5 Critical angle.  The storm-relative surface vector is               *)
(* (u/den + K*ku, v/den + K*kv) with K = D / sqrt(ku^2 + kv^2), D the       *)
(* deviation magnitude of the Bunkers estimate; the 0-500 m shear vector   *)
(* is (du, dv) / (den * gap).  Cross and dot product are, up to a positive *)
(* factor, quantities a + K * b with whole a and b, whose sign is decided  *)
(* exactly.  An angle is kept as its place among the multiples of 45       *)
(* degrees: 2k for 45k degrees, 2k + 1 for an angle strictly between 45k   *)
(* and 45(k + 1) degrees; 16 is 360 degrees.                               *)
(***************************************************************************)
\* twice the deviation magnitude D = 7.5
DeviationTwice == 15

Sgn(x) == IF x > 0 THEN 1 ELSE IF x < 0 THEN -1 ELSE 0

\* the sign of a + K * b for K = D / sqrt(q), that of 2a * sqrt(q) + 2D * b
SignOf(a, b, q) ==
    LET P == 2 * a
        Q == DeviationTwice * b
    IN  IF b = 0 THEN Sgn(a)
        ELSE IF P >= 0 /\ Q >= 0 THEN 1
        ELSE IF P <= 0 /\ Q <= 0 THEN -1
        ELSE IF P > 0 THEN Sgn(P * P * q - Q * Q)
        ELSE Sgn(Q * Q - P * P * q)

\* atan2(y, x) from the signs of y, of x and of |y| - |x|; atan2(0, 0) = 0
Atan2(sy, sx, sm) ==
    LET up == CASE sx > 0 -> (IF sm < 0 THEN 1 ELSE IF sm = 0 THEN 2 ELSE 3)
                [] sx = 0 -> 4
                [] sx < 0 -> (IF sm > 0 THEN 5 ELSE IF sm = 0 THEN 6 ELSE 7)
    IN  IF sy = 0 THEN (IF sx < 0 THEN 8 ELSE 0)
        ELSE IF sy > 0 THEN up ELSE -up

\* a normalization that also turns the angle 0
NormalizeAngleInclusive(angle) == IF angle <= 0 THEN angle + 16 ELSE angle

\* normalization of an angle of (-180, 180] to [0, 360)
NormalizeAngle(angle) == IF angle < 0 THEN angle + 16 ELSE angle

\* the surface wind is the lowest level of the series; it and the shear up
\* to 500 m exist when the storm motion does and the profile reaches 500 m
CriticalAngleAvailable(series) ==
    series[1].finite /\ TopHeight(series) >= 500

CriticalAngle(series) ==
    IF ~CriticalAngleAvailable(series) THEN Null
    ELSE LET k       == LevelsUpTo(series, 500)
             sampled == series[k].height_m = 500
             gap     == IF sampled THEN 1
                        ELSE Steps(series[k + 1].height_m - series[k].height_m)
             top     == IF sampled THEN series[k]
                        ELSE Interpolate(series[k], series[k + 1], 500)
             sfc     == series[1]
             du      == top.u - gap * sfc.u
             dv      == top.v - gap * sfc.v
             q       == sfc.ku * sfc.ku + sfc.kv * sfc.kv
             ya      == sfc.u * dv - sfc.v * du
             yb      == sfc.den * (sfc.ku * dv - sfc.kv * du)
             xa      == sfc.u * du + sfc.v * dv
             xb      == sfc.den * (sfc.ku * du + sfc.kv * dv)
             sy      == SignOf(ya, yb, q)
             sx      == SignOf(xa, xb, q)
             sm      == SignOf(sy * ya - sx * xa, sy * yb - sx * xb, q)
         IN  Some(NormalizeAngle(Atan2(sy, sx, sm)))

(***************************************************************************)
(* 4.6 Hodograph Point Builder.                                            *)
(***************************************************************************)
\* a plot-ready point: a vector of the series, the scale of its components
\* (1 for a sampled level, the gap in steps for an interpolated one)
HodographPoint(x, scale, interpolated) ==
    [height_m |-> x.height_m, u |-> x.u, v |-> x.v, den |-> x.den,
     ku |-> x.ku, kv |-> x.kv, finite |-> x.finite,
     scale |-> scale, interpolated |-> interpolated]

\* interpolation at every 500 m boundary from lo to hi, both ends included
HalfKmFromTo(lo, hi) ==
    LET gap   == Steps(hi.height_m - lo.height_m)
        first == 500 * ((lo.height_m + 499) \div 500)
        n     == IF hi.height_m >= first
                 THEN (hi.height_m - first) \div 500 + 1 ELSE 0
    IN  [j \in 1..n |->
            HodographPoint(Interpolate(lo, hi, first + 500 * (j - 1)),
                           gap, TRUE)]

\* the points interpolated at the 500 m boundaries strictly between two
\* consecutive levels
HalfKmBetween(lo, hi) ==
    LET gap   == Steps(hi.height_m - lo.height_m)
        first == 500 * (lo.height_m \div 500 + 1)
        n     == IF hi.height_m > first
                 THEN (hi.height_m - first + 499) \div 500 ELSE 0
    IN  [j \in 1..n |->
            HodographPoint(Interpolate(lo, hi, first + 500 * (j - 1)),
                           gap, TRUE)]

\* the sampled points from level i on, each followed by the interpolated
\* points up to the next level
RECURSIVE Densify(_, _)
Densify(series, i) ==
    IF i > Len(series) THEN << >>
    ELSE IF i = Len(series) THEN << HodographPoint(series[i], 1, FALSE) >>
    ELSE << HodographPoint(series[i], 1, FALSE) >>
           \o HalfKmBetween(series[i], series[i + 1])
           \o Densify(series, i + 1)

\* build(storm_relative_series, include_half_km)
Build(series, include_half_km) ==
    IF include_half_km THEN SortByHeight(Densify(series, 1))
    ELSE [i \in 1..Len(series) |-> HodographPoint(series[i], 1, FALSE)]

(***************************************************************************)
(* One analysis call of the engine, component by component.                *)
(*   engIn   the input of the call: raw observations, or a profile as the  *)
(*           Normalizer returns it, and the explicit storm motion if any   *)
(*   engOut  what the call has produced so far; include_half_km, an input  *)
(*           of the Point Builder alone, is recorded when it runs          *)
(***************************************************************************)
client ==
    <<globals, mapState, inputs, buttons, active, statusDisplays,
      desktopDisplays, mobileDisplays, lastMsg, isMobile, pending>>

Started ==
    [stage |-> "start", status |-> "none", profile |-> << >>,
     rejected |-> << >>, warnings |-> {}, estimate |-> Null,
     motion |-> Null, series |-> << >>, params |-> Null,
     critical_angle |-> Null, include_half_km |-> FALSE, points |-> << >>]

EngineInit ==
    \/ \E n \in 0..MaxObs : \E obs \in ObsLists(n) :
          /\ engIn = [kind |-> "observations", obs |-> obs,
                      profile |-> << >>, explicit |-> Null]
          /\ engOut = Started
    \/ \E n \in 2..MaxLevels : \E hs \in HeightLists(n) :
          \E us \in [1..n -> Components], vs \in [1..n -> Components] :
             \E e \in ExplicitMotions :
                /\ engIn = [kind |-> "profile", obs |-> << >>,
                            profile |-> ProfileOf(hs, us, vs),
                            explicit |-> e]
                /\ engOut = [Started EXCEPT !.stage = "normalized",
                                            !.status = "ok",
                                            !.profile = engIn.profile]

\* 4.1: the Normalizer runs on the raw observations
Normalize ==
    /\ engOut.stage = "start"
    /\ LET r == NormalizeObservations(engIn.obs)
       IN  engOut' = [engOut EXCEPT
                        !.stage = IF r.status = "ok" THEN "normalized"
                                  ELSE "failed",
                        !.status = r.status,
                        !.profile = r.profile,
                        !.rejected = r.rejected]
    /\ UNCHANGED <<client, engIn, units>>

\* 4.2: a valid explicit motion is returned unchanged; otherwise the
\* Bunkers estimate is computed and its right-mover used.  For a zero
\* shear vector the division of step 3 either raises or yields not-a-number
\* components, depending on the arithmetic of the build.
ResolveMotion ==
    /\ engOut.stage = "normalized"
    /\ IF ExplicitValid(engIn.explicit)
         THEN engOut' = [engOut EXCEPT
                           !.stage = "resolved",
                           !.motion = Some(Exact(MotionVector(
                                               Val(engIn.explicit))))]
         ELSE LET b == Bunkers(engOut.profile)
                  w == (IF TopHeight(engOut.profile) < MeanLayerTop
                          THEN {"ShallowProfileWarning"} ELSE {})
                       \cup (IF IsNull(engIn.explicit) THEN {}
                             ELSE {"InvalidStormMotionError"})
              IN  \E arithmetic \in {"raises", "nan"} :
                    IF ~b.right_mover.finite /\ arithmetic = "raises"
                      THEN engOut' = [engOut EXCEPT
                                        !.stage = "failed",
                                        !.status = "ZeroDivisionError",
                                        !.warnings = w]
                      ELSE engOut' = [engOut EXCEPT
                                        !.stage = "resolved",
                                        !.warnings = w,
                                        !.estimate = Some(b),
                                        !.motion = Some(b.right_mover)]
    /\ UNCHANGED <<client, engIn, units>>

\* 4.3: the storm-relative series
TransformStep ==
    /\ engOut.stage = "resolved"
    /\ engOut' = [engOut EXCEPT
                    !.stage = "transformed",
                    !.series = Transform(engOut.profile, Val(engOut.motion))]
    /\ UNCHANGED <<client, engIn, units>>

\* 4.4 and 4.5: the derived parameters and the critical angle
Derive ==
    /\ engOut.stage = "transformed"
    /\ engOut' = [engOut EXCEPT
                    !.stage = "done",
                    !.params = Some(DerivedParameters(engOut.series)),
                    !.critical_angle = CriticalAngle(engOut.series)]
    /\ UNCHANGED <<client, engIn, units>>

\* 4.6: the plot-ready points
BuildPoints ==
    /\ engOut.stage = "done"
    /\ \E half \in BOOLEAN :
          engOut' = [engOut EXCEPT
                       !.stage = "built",
                       !.include_half_km = half,
                       !.points = Build(engOut.series, half)]
    /\ UNCHANGED <<client, engIn, units>>

InitEngine == AppInit /\ ~isMobile /\ EngineInit /\ UnitsIdle

NextEngine ==
    \/ Normalize
    \/ ResolveMotion
    \/ TransformStep
    \/ Derive
    \/ BuildPoints

SpecEngine == InitEngine /\ [][NextEngine]_vars

(***************************************************************************)
(* Properties of the engine, checked under SpecEngine.                     *)
(***************************************************************************)
\* the eight compass points: 0 north, 1 north-east, 2 east, ... 7 north-west
OnCompass(x) ==
    /\ x.u # 0 \/ x.v # 0
    /\ x.u = 0 \/ x.v = 0 \/ x.u = x.v \/ x.u = -x.v

CompassPoint(x) ==
    CASE x.u = 0 /\ x.v > 0 -> 0
      [] x.u > 0 /\ x.v = x.u -> 1
      [] x.u > 0 /\ x.v = 0 -> 2
      [] x.u > 0 /\ x.v = -x.u -> 3
      [] x.u = 0 /\ x.v < 0 -> 4
      [] x.u < 0 /\ x.v = x.u -> 5
      [] x.u < 0 /\ x.v = 0 -> 6
      [] x.u < 0 /\ x.v = -x.u -> 7

\* a storm-relative series free of the Bunkers deviation whose vectors lie
\* on compass points and turn by 45, 90 or 135 degrees from each level to
\* the next: clockwise for sense = 1, counter-clockwise for sense = -1
Turns(series, sense) ==
    /\ Len(series) >= 2
    /\ \A i \in 1..Len(series) :
          /\ series[i].ku = 0 /\ series[i].kv = 0 /\ series[i].finite
          /\ OnCompass(series[i])
    /\ \A i \in 1..(Len(series) - 1) :
          ((CompassPoint(series[i + 1]) - CompassPoint(series[i])) * sense) % 8
              \in {1, 2, 3}

\* C5: for a profile whose storm-relative vectors turn clockwise with
\* height the SRH of every computable bin is positive, and for one turning
\* counter-clockwise it is negative.
C5_SignLaw ==
    engOut.stage = "done" =>
        \A f \in SrhFields \cap DOMAIN Val(engOut.params) :
            /\ Turns(engOut.series, 1) => Val(engOut.params)[f].rat > 0
            /\ Turns(engOut.series, -1) => Val(engOut.params)[f].rat < 0

\* C6: each SRH bin (0.5, 1, 3 km) and each bulk shear (1, 3, 6 km) is in
\* the result exactly when the top of the profile is at least that depth;
\* a field that is not computable is absent.
C6_DepthGating ==
    engOut.stage = "done" =>
        LET top     == engOut.profile[Len(engOut.profile)].height_m
            present == DOMAIN Val(engOut.params)
        IN  /\ "srh_0_5" \in present <=> top >= 500
            /\ "srh_0_1" \in present <=> top >= 1000
            /\ "srh_0_3" \in present <=> top >= 3000
            /\ "shear_1km" \in present <=> top >= 1000
            /\ "shear_3km" \in present <=> top >= 3000
            /\ "shear_6km" \in present <=> top >= 6000

\* a profile that tops at 1.5 km and has no level at 1 km: the 1 km fields
\* are interpolated and present, the 3 km and 6 km fields absent
C6_Witness ==
    /\ engOut.stage = "done"
    /\ engOut.profile[Len(engOut.profile)].height_m = 1500
    /\ \A i \in 1..Len(engOut.profile) : engOut.profile[i].height_m # 1000
    /\ DOMAIN Val(engOut.params) = {"srh_0_5", "srh_0_1", "shear_1km"}
    /\ Val(engOut.params)["srh_0_1"].scale > 1

\* the Resolver has run on a profile without a valid explicit motion
BunkersAsked ==
    /\ engOut.stage \in {"resolved", "transformed", "done", "failed"}
    /\ Len(engOut.profile) >= 2
    /\ ~ExplicitValid(engIn.explicit)

\* C7: with no valid explicit storm motion the Resolver returns a Bunkers
\* estimate for every profile of at least two points, with a
\* ShallowProfileWarning when the top is below 6 km; the estimate is never
\* absent and the call does not fail.
C7_EstimateAlwaysProduced ==
    BunkersAsked =>
        /\ engOut.stage # "failed"
        /\ ~IsNull(engOut.estimate)
        /\ Val(engOut.estimate).right_mover.finite
        /\ Val(engOut.estimate).left_mover.finite
        /\ engOut.profile[Len(engOut.profile)].height_m < 6000
              => "ShallowProfileWarning" \in engOut.warnings

\* C8: whenever an estimate is produced, right-mover + left-mover is twice
\* the mean wind, component by component.
C8_BunkersSymmetry ==
    (~IsNull(engOut.estimate) /\ Val(engOut.estimate).right_mover.finite) =>
        LET r == Val(engOut.estimate).right_mover
            l == Val(engOut.estimate).left_mover
            m == Val(engOut.estimate).mean
        IN  /\ r.den = m.den /\ l.den = m.den /\ l.finite
            /\ r.u + l.u = 2 * m.u /\ r.v + l.v = 2 * m.v
            /\ r.ku + l.ku = 0 /\ r.kv + l.kv = 0

\* an estimate with a mean wind and a deviation that are not zero
C8_Witness ==
    /\ ~IsNull(engOut.estimate)
    /\ Val(engOut.estimate).right_mover.finite
    /\ Val(engOut.estimate).mean.u # 0
    /\ Val(engOut.estimate).right_mover.ku # 0
    /\ Val(engOut.estimate).right_mover # Val(engOut.estimate).left_mover

\* the valid observations of the input, as a set of positions
ValidPositions ==
    { i \in 1..Len(engIn.obs) :
        /\ engIn.obs[i].speed_kt >= 0
        /\ \/ engIn.obs[i].direction_deg = Variable
           \/ /\ engIn.obs[i].direction_deg[1] >= 0
              /\ engIn.obs[i].direction_deg[1] < 360 }

\* C9: for every list of raw observations the Normalizer fails with
\* DuplicateHeightError when two valid observations share a height, with
\* InsufficientDataError when fewer than two valid ones remain, and
\* otherwise returns a profile with strictly increasing heights that holds
\* exactly the valid observations.
C9_NormalizerOutcome ==
    (engIn.kind = "observations" /\ engOut.stage # "start") =>
        IF \E i, j \in ValidPositions :
               i # j /\ engIn.obs[i].height_m = engIn.obs[j].height_m
          THEN engOut.stage = "failed"
               /\ engOut.status = "DuplicateHeightError"
        ELSE IF Cardinality(ValidPositions) < 2
          THEN engOut.stage = "failed"
               /\ engOut.status = "InsufficientDataError"
        ELSE /\ engOut.status \in {"ok", "ZeroDivisionError"}
             /\ Len(engOut.profile) = Cardinality(ValidPositions)
             /\ \A i \in 1..(Len(engOut.profile) - 1) :
                   engOut.profile[i].height_m < engOut.profile[i + 1].height_m
             /\ { engOut.profile[i] : i \in 1..Len(engOut.profile) }
                   = { ToVector(engIn.obs[i]) : i \in ValidPositions }

\* three observations given top-down, the middle one invalid, normalized
\* to a profile of two levels
C9_Witness ==
    /\ engIn.kind = "observations"
    /\ engOut.stage = "normalized"
    /\ Len(engIn.obs) = 3
    /\ engIn.obs[1].height_m > engIn.obs[3].height_m
    /\ Len(engOut.rejected) = 1
    /\ Len(engOut.profile) = 2

\* C10: the transform returns as many vectors as the profile has, at the
\* same heights in the same order, each one the profile's vector minus the
\* storm motion; the profile and the motion are left as they were, and the
\* zero motion returns the profile's vectors.
C10_Transform ==
    engOut.stage \in {"transformed", "done"} =>
        LET p == engOut.profile
            s == engOut.series
            m == Val(engOut.motion)
        IN  /\ Len(s) = Len(p)
            /\ \A i \in 1..Len(p) :
                  /\ s[i].height_m = p[i].height_m
                  /\ s[i].den = m.den
                  /\ s[i].u + m.u = m.den * p[i].u
                  /\ s[i].v + m.v = m.den * p[i].v
                  /\ s[i].ku + m.ku = 0 /\ s[i].kv + m.kv = 0
            /\ engIn.kind = "profile" => p = engIn.profile
            /\ ExplicitValid(engIn.explicit) =>
                  /\ m.den = 1 /\ m.ku = 0 /\ m.kv = 0
                  /\ m.u = -(Val(engIn.explicit).speed_kt
                               * Sin(Val(engIn.explicit).direction_deg))
                  /\ m.v = -(Val(engIn.explicit).speed_kt
                               * Cos(Val(engIn.explicit).direction_deg))
            /\ (m.u = 0 /\ m.v = 0 /\ m.den = 1 /\ m.ku = 0 /\ m.kv = 0) =>
                  \A i \in 1..Len(p) : s[i].u = p[i].u /\ s[i].v = p[i].v

\* a profile of three levels transformed by the westward explicit motion
C10_Witness ==
    /\ engOut.stage = "transformed"
    /\ engIn.explicit = Some([direction_deg |-> 90, speed_kt |-> 1])
    /\ Len(engOut.series) = 3
    /\ \A i \in 1..3 : engOut.series[i].u = engOut.profile[i].u + 1

\* the multiples of 500 m strictly between the lowest and the highest level
\* of the series that are not levels themselves
NewBoundaries ==
    LET s     == engOut.series
        taken == { s[i].height_m : i \in 1..Len(s) }
    IN  { h \in { 500 * k : k \in 0..13 } :
            s[1].height_m < h /\ h < s[Len(s)].height_m /\ h \notin taken }

\* C11: with include_half_km the Point Builder returns the sampled points
\* and one interpolated point for every new 500 m boundary, in strictly
\* increasing height; the count is that of the series plus the number of
\* new boundaries, and without include_half_km it is that of the series.
C11_HalfKmDensification ==
    engOut.stage = "built" =>
        LET s  == engOut.series
            pt == engOut.points
        IN  /\ \A i \in 1..(Len(pt) - 1) : pt[i].height_m < pt[i + 1].height_m
            /\ \A i \in 1..Len(s) : \E j \in 1..Len(pt) :
                  /\ ~pt[j].interpolated /\ pt[j].scale = 1
                  /\ pt[j].height_m = s[i].height_m
                  /\ pt[j].u = s[i].u /\ pt[j].v = s[i].v
            /\ IF engOut.include_half_km
                 THEN /\ Len(pt) = Len(s) + Cardinality(NewBoundaries)
                      /\ { pt[j].height_m : j \in { k \in 1..Len(pt) :
                                                      pt[k].interpolated } }
                            = NewBoundaries
                 ELSE Len(pt) = Len(s)

\* levels at 0, 1000 and 3000 m densified: 500, 1500, 2000 and 2500 m are
\* added, seven points in all
C11_Witness ==
    /\ engOut.stage = "built"
    /\ engOut.include_half_km
    /\ Len(engOut.series) = 3
    /\ engOut.series[1].height_m = 0
    /\ engOut.series[2].height_m = 1000
    /\ engOut.series[3].height_m = 3000
    /\ Len(engOut.points) = 7
    /\ engOut.points[2].interpolated /\ engOut.points[2].height_m = 500

\* C18: a critical angle that is reported is at least 0 and less than 360
\* degrees, and none is reported when the storm-relative surface wind does
\* not exist or the profile does not reach 500 m.
C18_CriticalAngleRange ==
    engOut.stage \in {"done", "built"} =>
        /\ ~IsNull(engOut.critical_angle) =>
              Val(engOut.critical_angle) >= 0 /\ Val(engOut.critical_angle) < 16
        /\ (\/ ~engOut.series[1].finite
            \/ engOut.series[Len(engOut.series)].height_m < 500)
              => IsNull(engOut.critical_angle)

\* a shear vector to the right of the surface wind: atan2 is negative and
\* the angle reported lies between 180 and 360 degrees
C18_Witness ==
    /\ engOut.stage = "done"
    /\ ~IsNull(engOut.critical_angle)
    /\ Val(engOut.critical_angle) > 8

(***************************************************************************)
(* Further properties of the analysis flow.                                *)
(***************************************************************************)
\* the storm motion of an analysis-details text and that of a request are
\* the same value, or both are absent
SameStorm(info, storm) ==
    \/ IsNull(info) /\ IsNull(storm)
    \/ /\ ~IsNull(info) /\ ~IsNull(storm)
       /\ Val(info).direction = Val(storm).storm_direction
       /\ Val(info).speed = Val(storm).storm_speed

\* C12: when the hodograph response of a call is displayed, the storm
\* motion written to the analysis details is the one the call sent in its
\* hodograph request, or both are absent.
C12_OneStormMotionPerCall ==
    [][\A c \in Requested :
          (HodographResponse(c, "ok") /\ ~IsNull(selectedSite)) =>
              SameStorm(Val(analysisDetails').stormInfo, Val(c.req).storm)]_vars

\* C14: when the hodograph response of a call carries an error, the call
\* shows an error message, leaves the hodograph display, the analysis
\* details (desktop and mobile), the enablement of both hodograph tabs and
\* the current tab with its active buttons and panes as they were, and
\* hides the loading overlay.
C14_NoPartialResultOnError ==
    [][\A c \in Requested :
          HodographResponse(c, "error") =>
              /\ lastMsg' = "error"
              /\ UNCHANGED <<hodographDisplay, analysisDetails,
                             parametersDisplay, mobileHodographDisplay,
                             mobileAnalysisDetails, mobileParametersDisplay>>
              /\ UNCHANGED <<hodographTabDisabled, mobileHodographTabDisabled,
                             currentTab>>
              /\ active' \ {"loadingOverlay"} = active \ {"loadingOverlay"}
              /\ "loadingOverlay" \notin active']_vars

\* a call has sent its hodograph request with a storm motion and has ended
\* without a hodograph ever being displayed; the overlay is hidden
C14_Witness ==
    /\ calls = EmptyBag
    /\ lastMsg = "error"
    /\ ~IsNull(selectedSite) /\ ~IsNull(stormMotion)
    /\ hodographDisplay = "placeholder" /\ IsNull(analysisDetails)
    /\ hodographTabDisabled /\ mobileHodographTabDisabled
    /\ currentTab = "map"
    /\ "loadingOverlay" \notin active

\* no analysis call, VAD load, site list load or other reset is under way
NothingElseInFlight ==
    /\ calls = EmptyBag /\ vadAuto = EmptyBag
    /\ radarSitesReq = 0 /\ resets = 1

\* C19: when resetApplication completes successfully and nothing else is
\* in flight, the session state is that of page load: selectedSite,
\* metarData and stormMotion null, vadDataLoaded false, the METAR and storm
\* inputs empty, the plot button and both hodograph tabs disabled, both
\* hodograph displays showing the placeholder, no METAR marker on the map
\* and the initial tab of the layout current.
C19_ResetRestoresInitialSession ==
    [][(ResetResponse("ok") /\ NothingElseInFlight) =>
          /\ selectedSite' = Null /\ metarData' = Null /\ stormMotion' = Null
          /\ vadDataLoaded' = FALSE
          /\ metarStation' = << >>
          /\ stormDirection' = << >> /\ stormSpeed' = << >>
          /\ plotBtnDisabled' /\ hodographTabDisabled'
          /\ mobileHodographTabDisabled'
          /\ hodographDisplay' = "placeholder"
          /\ mobileHodographDisplay' = "placeholder"
          /\ metarMarkers' = {}
          /\ currentTab' = IF isMobile THEN "controls" ELSE "map"]_vars

\* C20: whenever the plot button is enabled, a radar site is selected, the
\* VAD data count as loaded and no VAD load started for a selection is
\* still awaited: the button was enabled by the load of the selected site.
C20_PlotButtonOnlyForLoadedSite ==
    ~plotBtnDisabled =>
        /\ ~IsNull(selectedSite)
        /\ vadDataLoaded
        /\ vadStatus = "loaded"
        /\ vadAuto = EmptyBag

(***************************************************************************)
(* Part III.  Functions checked call by call: the rendering of the         *)
(* parameters of a hodograph response (both versions of the page script)   *)
(* and get_metar of the server.                                            *)
(***************************************************************************)
(***************************************************************************)
(* The parameters of a hodograph response.  A field of the JSON object is  *)
(* missing (undefined when read), null, or a number; bunkers is missing,   *)
(* null, or an object whose right_mover and left_mover are missing or an    *)
(* object of direction and speed.                                          *)
(***************************************************************************)
\* fields of a parameters object that are not undefined, at most
MaxFieldsPresent == 2

JsUndefined == [tag |-> "undefined", n |-> 0]
JsNull == [tag |-> "null", n |-> 0]
JsNumber(n) == [tag |-> "number", n |-> n]

\* the fields with a number
ScalarFields ==
    {"srh_0_5", "srh_0_1", "srh_0_3", "shear_1km", "shear_3km", "shear_6km",
     "shear_depth", "shear_magnitude", "critical_angle"}

ParamFields == ScalarFields \cup {"bunkers"}

ParamValues == {JsUndefined, JsNull, JsNumber(0), JsNumber(5)}

\* a storm motion of bunkers, direction and speed in tenths; NoMover is a
\* missing one
NoMover == [tag |-> "undefined", direction |-> 0, speed |-> 0]

JsMover(d, v) == [tag |-> "object", direction |-> d, speed |-> v]

Movers == {NoMover, JsMover(2254, 125)}

BunkersUndefined ==
    [tag |-> "undefined", right_mover |-> NoMover, left_mover |-> NoMover]

BunkersNull == [tag |-> "null", right_mover |-> NoMover, left_mover |-> NoMover]

JsBunkers(r, l) == [tag |-> "object", right_mover |-> r, left_mover |-> l]

BunkersValues ==
    {BunkersUndefined, BunkersNull} \cup { JsBunkers(r, l) : r, l \in Movers }

ValuesOf(f) == IF f = "bunkers" THEN BunkersValues ELSE ParamValues

UndefinedOf(f) == IF f = "bunkers" THEN BunkersUndefined ELSE JsUndefined

\* the objects whose fields other than those of S are missing
ObjectsOn(S) ==
    { [f \in ParamFields |-> IF f \in S THEN g[f] ELSE UndefinedOf(f)] :
        g \in { h \in [S -> ParamValues \cup BunkersValues] :
                  \A f \in S : h[f] \in ValuesOf(f) /\ h[f].tag # "undefined" } }

ParamObjects ==
    UNION { ObjectsOn(S) :
              S \in { T \in SUBSET ParamFields :
                        Cardinality(T) <= MaxFieldsPresent } }

\* Object.keys(parameters)
ObjectKeys(parameters) ==
    { f \in ParamFields : parameters[f].tag # "undefined" }

\* Math.round of a number given in tenths
MathRound(x10) == (x10 + 5) \div 10

\* one <p> of the parameters display: the field and the value whose text
\* the template literal inserts (the digits of a number, 'null' for null)
ParamLine(f, v) == [field |-> f, value |-> v, at |-> JsUndefined]

\* the <p> of a storm motion of bunkers: rounded direction "at" rounded speed
MoverLine(f, m) ==
    [field |-> f, value |-> JsNumber(MathRound(m.direction)),
     at |-> JsNumber(MathRound(m.speed))]

\* the fields each version of the script has a line for
AppFields == ScalarFields
OldFields == {"srh_0_5", "srh_0_1", "srh_0_3"}

\* app.js 1106-1116: the lines of bunkers, when it is an object
BunkersHtml(bunkers) ==
    IF bunkers.tag # "object" THEN {}
    ELSE { MoverLine(f, bunkers[f]) :
             f \in { g \in {"right_mover", "left_mover"} :
                       bunkers[g].tag = "object" } }

\* app.js 1065-1118: a line per field that is neither null nor undefined
AppParametersHtml(parameters) ==
    { ParamLine(f, parameters[f]) :
        f \in { g \in AppFields : /\ parameters[g] # JsNull
                                  /\ parameters[g] # JsUndefined } }
      \cup BunkersHtml(parameters["bunkers"])

\* part_002 332-345: a line per field that is not undefined
OldParametersHtml(parameters) ==
    { ParamLine(f, parameters[f]) :
        f \in { g \in OldFields : parameters[g] # JsUndefined } }

\* if (hodographData.parameters && Object.keys(...).length > 0)
HasParameters(data) ==
    /\ ~IsNull(data.parameters)
    /\ ObjectKeys(Val(data.parameters)) # {}

\* the bodies of successful hodograph responses
Responses ==
    { [parameters |-> p] : p \in {Null} \cup { Some(o) : o \in ParamObjects } }

(***************************************************************************)
(* The second script of app.js (lines 688-1210): the page without the      *)
(* mobile layout.  Up to the hodograph response its handlers are those of  *)
(* the first script in a wide window; its success branch renders the       *)
(* parameters, and its reset empties them.                                 *)
(***************************************************************************)
\* the hodograph response of a call arrives with an image (app.js
\* 1054-1138).  With no site selected line 1121 throws after the image and
\* the parameters are written.
DisplayParameters(c, data) ==
    /\ c \in BagToSet(calls) /\ c.pc = "hodo"
    /\ calls' = RemoveFrom(calls, c)
    /\ hodographData' = Some(data)
    /\ hodographDisplay' = "image"
    /\ IF HasParameters(data)
         THEN /\ parametersHtml' = AppParametersHtml(Val(data.parameters))
              /\ parametersDisplay' = "lines"
         ELSE UNCHANGED <<parametersHtml, parametersDisplay>>
    /\ IF IsNull(selectedSite)
         THEN /\ lastMsg' = "error"
              /\ active' = HideLoading(active)
              /\ UNCHANGED <<currentTab, hodographTabDisabled, analysisDetails>>
         ELSE /\ analysisDetails' = AnalysisDetailsOf(Val(selectedSite), c)
              /\ hodographTabDisabled' = FALSE
              /\ active' = HideLoading(SwitchTabActive(active, "hodograph"))
              /\ currentTab' = "hodograph"
              /\ lastMsg' = "success"
    /\ UNCHANGED <<selectedSite, metarData, stormMotion, vadDataLoaded,
                   mapState, inputs, plotBtnDisabled,
                   mobileHodographTabDisabled, statusDisplays, mobileDisplays,
                   isMobile, vadAuto, metarSitesReq, radarSitesReq, resets,
                   warningsReq, engine, metarIn, metarOut>>

\* resetApplication of the second script after its await (app.js
\* 1147-1179): the reset of the first script in a wide window; line 1158
\* empties the parameters display
ResetParameters ==
    /\ ~isMobile
    /\ ResetClient("ok")
    /\ parametersHtml' = {}
    /\ UNCHANGED <<engine, metarIn, metarOut, hodographData>>

\* SpecRender: the second script.  A site is selected, its VAD data load,
\* analyses are run with the optional fields left empty and answered with
\* any of the response bodies, and the page is reset.
NextRender ==
    \/ RadarSitesResponse(TRUE)
    \/ SelectRadarSite("KTLX")
    \/ VadAutoResponse("KTLX", "ok")
    \/ ClickPlot
    \/ \E c \in BagToSet(calls) : VadResponse(c, "ok")
    \/ \E c \in BagToSet(calls), data \in Responses : DisplayParameters(c, data)
    \/ ClickReset
    \/ ResetParameters

SpecRender == Init /\ [][NextRender]_vars

(***************************************************************************)
(* The older page script (part_002), call by call: the parameters of its   *)
(* success branch and of its reset.  The other elements of its page are    *)
(* not those of index.html and are not tracked.                            *)
(***************************************************************************)
\* part_002 330-346
DisplayParametersOld(data) ==
    /\ hodographData' = Some(data)
    /\ parametersHtml' = IF HasParameters(data)
                         THEN OldParametersHtml(Val(data.parameters))
                         ELSE parametersHtml
    /\ UNCHANGED <<client, engine, metarIn, metarOut>>

\* part_002 379
ResetParametersOld ==
    /\ parametersHtml' = {}
    /\ UNCHANGED <<client, engine, metarIn, metarOut, hodographData>>

NextRenderOld ==
    \/ \E data \in Responses : DisplayParametersOld(data)
    \/ ResetParametersOld

SpecRenderOld == Init /\ [][NextRenderOld]_vars

\* the lines a response should give: one per scalar field (of those the
\* page shows) that carries a number, with that number
LinesOfNumbers(fields, data) ==
    IF IsNull(data.parameters) THEN {}
    ELSE { ParamLine(f, Val(data.parameters)[f]) :
             f \in { g \in fields : Val(data.parameters)[g].tag = "number" } }

ScalarLines(html) == { l \in html : l.field \in ScalarFields }

\* C13: when a response is displayed, the parameters display holds a line
\* for a field exactly if the response carries a number for it, and the
\* line shows that number: 0 is shown as 0, a missing or null field has no
\* line.
C13_AbsentIsNotZero ==
    [][\A c \in BagToSet(calls), data \in Responses :
          DisplayParameters(c, data) =>
              ScalarLines(parametersHtml') = LinesOfNumbers(AppFields, data)]_vars

\* the same for the older page script
C13_OldAbsentIsNotZero ==
    [][\A data \in Responses :
          DisplayParametersOld(data) =>
              parametersHtml' = LinesOfNumbers(OldFields, data)]_vars

(***************************************************************************)
(* get_metar (part_001 5-83).  Its inputs are the station id and what the  *)
(* provider answers; a value of the JSON record is absent, null, a number  *)
(* or a string.  Wind values are whole numbers here.                       *)
(***************************************************************************)
PyAbsent == [tag |-> "absent", n |-> 0, s |-> << >>]
PyNone == [tag |-> "null", n |-> 0, s |-> << >>]
PyNum(n) == [tag |-> "number", n |-> n, s |-> << >>]
PyStr(s) == [tag |-> "string", n |-> 0, s |-> s]

\* station ids asked for; the last one ends with a newline
StationIds ==
    { <<"K", "O", "K", "C">>, <<"k", "o", "k", "c">>, <<"K", "O">>,
      <<"K", "O", "K", "C", "\n">> }

\* the keys of the record that the model fills: the first and the last
\* of ['wdir', 'wind_dir', 'direction', 'drct'] and of
\* ['wspd', 'wind_speed', 'speed', 'sknt']
DirKeys == <<"wdir", "drct">>
SpeedKeys == <<"wspd", "sknt">>

DirValues ==
    {PyAbsent, PyNone} \cup
    { PyNum(n) : n \in {-10, 0, 190, 360, 370} } \cup
    { PyStr(t) : t \in { <<"V", "R", "B">>, <<"v", "r", "b">>, <<"V", "r", "b">>,
                         <<"1", "9", "0">>, <<"x">> } }

SpeedValues ==
    {PyAbsent, PyNone} \cup
    { PyNum(n) : n \in {-1, 0, 10} } \cup
    { PyStr(t) : t \in { <<"1", "0">>, <<"x">> } }

MetarRecords ==
    [wdir : DirValues, drct : DirValues, wspd : SpeedValues, sknt : SpeedValues]

\* what requests.get / raise_for_status / response.json() give:
\*   failed      a RequestException (connection, timeout, HTTP status)
\*   not_json    the body is not JSON: response.json() raises ValueError
\*               (json.JSONDecodeError; requests before 2.27)
\*   not_json_requests
\*               the same with requests 2.27 or later: response.json()
\*               raises requests.exceptions.JSONDecodeError, which is a
\*               RequestException as well as a ValueError
\*   empty       [] or null
\*   object      a non-empty JSON object instead of a list
\*   scalars     a list whose first element is not an object
\*   list        a list whose first element is the record
ProviderOutcomes ==
    { [kind |-> k, metar |-> [wdir |-> PyAbsent, drct |-> PyAbsent,
                              wspd |-> PyAbsent, sknt |-> PyAbsent]] :
        k \in {"failed", "not_json", "not_json_requests", "empty", "object",
               "scalars"} }
    \cup { [kind |-> "list", metar |-> m] : m \in MetarRecords }

\* re.match(r'^[A-Z0-9]{4}$', station_id); $ also matches before a final
\* newline
UpperOrDigit == { UpperCase[i] : i \in 1..26 } \cup Digits

StationMatches(station_id) ==
    LET core == IF station_id # << >> /\ station_id[Len(station_id)] = "\n"
                THEN SubSeq(station_id, 1, Len(station_id) - 1)
                ELSE station_id
    IN  /\ Len(core) = 4
        /\ \A i \in 1..4 : core[i] \in UpperOrDigit

\* a str.upper() that leaves the text as it is
PyUpperKept(t) == t

\* str.upper()
PyUpper(t) == [i \in 1..Len(t) |-> UpperChar(t[i])]

\* isinstance(metar[key], str) and metar[key].upper() == 'VRB'
IsVrb(v) == v.tag = "string" /\ PyUpper(v.s) = <<"V", "R", "B">>

\* float(x): Null stands for the ValueError or TypeError it raises
PyFloat(v) ==
    CASE v.tag = "number" -> Some(v.n)
      [] v.tag = "string" ->
            LET t    == TrimLeft(TrimRight(v.s))
                neg  == t # << >> /\ Head(t) = "-"
                body == IF t # << >> /\ Head(t) \in {"-", "+"} THEN Tail(t) ELSE t
            IN  IF body # << >> /\ \A i \in 1..Len(body) : body[i] \in Digits
                THEN Some(IF neg THEN 0 - DigitsValue(body) ELSE DigitsValue(body))
                ELSE Null
      [] OTHER -> Null

RECURSIVE WindDirLoop(_, _, _)
\* lines 43-52: every key is visited, a later one overrides an earlier one
WindDirLoop(metar, keys, wind_dir) ==
    IF keys = << >> THEN wind_dir
    ELSE LET v == metar[Head(keys)]
             next == IF v.tag = "absent" THEN wind_dir
                     ELSE IF IsVrb(v) THEN Some(0)
                     ELSE IF IsNull(PyFloat(v)) THEN wind_dir
                     ELSE PyFloat(v)
         IN  WindDirLoop(metar, Tail(keys), next)

RECURSIVE WindSpeedLoop(_, _)
\* lines 55-61: the first key that converts ends the loop
WindSpeedLoop(metar, keys) ==
    IF keys = << >> THEN Null
    ELSE LET v == metar[Head(keys)]
         IN  IF v.tag # "absent" /\ ~IsNull(PyFloat(v)) THEN PyFloat(v)
             ELSE WindSpeedLoop(metar, Tail(keys))

Returned(wind_dir, wind_speed, error_message) ==
    [raises |-> "none", wind_direction |-> wind_dir,
     wind_speed |-> wind_speed, error_message |-> error_message]

Raises(exception) ==
    [raises |-> exception, wind_direction |-> Null, wind_speed |-> Null,
     error_message |-> Null]

\* lines 63-76
WindResult(wind_dir, wind_speed) ==
    IF ~IsNull(wind_dir) /\ ~IsNull(wind_speed)
    THEN IF 0 <= Val(wind_dir) /\ Val(wind_dir) <= 360 /\ Val(wind_speed) >= 0
         THEN Returned(wind_dir, wind_speed, Null)
         ELSE Returned(Null, Null, Some("Invalid wind values in METAR"))
    ELSE Returned(Null, Null, Some("Wind data incomplete in METAR"))

\* the body of the try statement, lines 19-76
TryBody(station_id, provider) ==
    IF ~StationMatches(station_id)
    THEN Returned(Null, Null, Some("Invalid station ID format"))
    ELSE CASE provider.kind = "failed" -> Raises("RequestException")
           [] provider.kind = "not_json" -> Raises("ValueError")
           [] provider.kind = "not_json_requests" ->
                 Raises("requests.JSONDecodeError")
           [] provider.kind = "empty" ->
                 Returned(Null, Null, Some("No METAR data available"))
           [] provider.kind = "object" -> Raises("KeyError")
           [] provider.kind = "scalars" -> Raises("AttributeError")
           [] provider.kind = "list" ->
                 WindResult(WindDirLoop(provider.metar, DirKeys, Null),
                            WindSpeedLoop(provider.metar, SpeedKeys))

\* the classes derived from Exception among those raised
Exceptions ==
    {"RequestException", "requests.JSONDecodeError", "ValueError",
     "KeyError", "IndexError", "AttributeError", "TypeError"}

\* the except clauses, lines 78-83
get_metar(station_id, provider) ==
    LET r == TryBody(station_id, provider)
    IN  CASE r.raises = "none" -> r
          [] r.raises \in {"RequestException", "requests.JSONDecodeError"} ->
                Returned(Null, Null, Some("Failed to fetch METAR data"))
          [] r.raises \in {"ValueError", "KeyError", "IndexError"} ->
                Returned(Null, Null, Some("Error parsing METAR data"))
          [] r.raises \in Exceptions ->
                Returned(Null, Null, Some("Unexpected error"))
          [] OTHER -> r

\* one call of get_metar
GetMetar(station_id, provider) ==
    /\ IsNull(metarIn)
    /\ metarIn' = Some([station_id |-> station_id, provider |-> provider])
    /\ metarOut' = Some(get_metar(station_id, provider))
    /\ UNCHANGED <<client, engine, hodographData, parametersHtml>>

NextMetar ==
    /\ IsNull(metarIn)
    /\ \E station_id \in StationIds, provider \in ProviderOutcomes :
          GetMetar(station_id, provider)

SpecMetar == Init /\ [][NextMetar]_vars

(***************************************************************************)
(* Properties of get_metar, checked under SpecMetar.                       *)
(***************************************************************************)
\* the call made and what it returned
Asked == Val(metarIn)
Answer == Val(metarOut)

\* the provider answered the call with a list holding a record
RecordReceived ==
    /\ ~IsNull(metarIn)
    /\ StationMatches(Asked.station_id)
    /\ Asked.provider.kind = "list"

\* spellings of VRB among the values of the model
VrbSpellings == { <<"V", "R", "B">>, <<"v", "r", "b">>, <<"V", "r", "b">> }

PresentValues(metar, keys) ==
    { metar[keys[i]] : i \in 1..Len(keys) } \ {PyAbsent}

\* the record reports a variable direction: it has a direction field, and
\* every direction field it has spells VRB
DirectionIsVrb(metar) ==
    /\ PresentValues(metar, DirKeys) # {}
    /\ \A v \in PresentValues(metar, DirKeys) :
          v.tag = "string" /\ v.s \in VrbSpellings

\* the record reports the speed n: it has a speed field, and every speed
\* field it has is the number n or a text of it
SpeedIs(metar, n) ==
    /\ PresentValues(metar, SpeedKeys) # {}
    /\ \A v \in PresentValues(metar, SpeedKeys) : PyFloat(v) = Some(n)

\* C15: for every record whose direction is VRB in any letter case and
\* whose speed is a number n >= 0, get_metar returns (0, n, None).
C15_VariableDirectionIsZero ==
    RecordReceived =>
        \A n \in {0, 10} :
            (DirectionIsVrb(Asked.provider.metar) /\ SpeedIs(Asked.provider.metar, n))
                => Answer = Returned(Some(0), Some(n), Null)

\* a lower-case 'vrb' with speed 10 was answered with (0, 10, None)
C15_Witness ==
    /\ RecordReceived
    /\ Asked.provider.metar.wdir = PyStr(<<"v", "r", "b">>)
    /\ Asked.provider.metar.drct = PyAbsent
    /\ SpeedIs(Asked.provider.metar, 10)
    /\ Answer = Returned(Some(0), Some(10), Null)

\* C16: a wind observation is accepted (returned without error) only if
\* its speed is >= 0 and its direction is VRB (returned as 0) or lies in
\* [0, 360); any other observation, direction 360 included, gives an error
\* and no wind values.
C16_AcceptedRange ==
    RecordReceived =>
        IF IsNull(Answer.error_message)
        THEN /\ ~IsNull(Answer.wind_direction) /\ ~IsNull(Answer.wind_speed)
             /\ 0 <= Val(Answer.wind_direction)
             /\ Val(Answer.wind_direction) < 360
             /\ Val(Answer.wind_speed) >= 0
        ELSE IsNull(Answer.wind_direction) /\ IsNull(Answer.wind_speed)

\* C17: for every station id and every provider outcome get_metar raises
\* nothing and returns either (direction, speed, None) with a direction in
\* [0, 360) and a speed >= 0, or (None, None, message) with a message that
\* is not empty.
C17_NeverRaises ==
    ~IsNull(metarIn) =>
        /\ Answer.raises = "none"
        /\ IF IsNull(Answer.error_message)
           THEN /\ ~IsNull(Answer.wind_direction) /\ ~IsNull(Answer.wind_speed)
                /\ Val(Answer.wind_direction) \in 0..359
                /\ Val(Answer.wind_speed) >= 0
           ELSE /\ IsNull(Answer.wind_direction) /\ IsNull(Answer.wind_speed)
                /\ Val(Answer.error_message) # ""

(***************************************************************************)
(* Part IV.  The map: markers and warning layers, with the responses that  *)
(* Spec leaves outstanding.                                                *)
(***************************************************************************)
\* loadWarnings fetches in flight
MaxWarningsPending == 2

\* change of the Show Warnings box (app.js 372-380): loadWarnings when it
\* is now checked, removal of the layers when it is not
ToggleWarnings ==
    /\ ControlsVisible
    /\ showWarnings' = ~showWarnings
    /\ IF showWarnings'
         THEN /\ warningsReq < MaxWarningsPending
              /\ warningsReq' = warningsReq + 1
              /\ UNCHANGED warningLayers
         ELSE /\ warningLayers' = {}
              /\ UNCHANGED warningsReq
    /\ UNCHANGED <<globals, radarSites, metarMarkers, metarOnMap, mapContainer,
                   metarStation, stormDirection, stormSpeed, showHalfKm,
                   buttons, active, statusDisplays, desktopDisplays,
                   mobileDisplays, lastMsg, isMobile, calls, vadAuto,
                   metarSitesReq, radarSitesReq, resets, engine, units>>

\* reinitializeDesktopMap (app.js 54-77): the map is rebuilt in #map; the
\* arrays metarMarkers and warningLayers keep their entries, whose markers
\* went with the removed map, and when they
\* are not empty the METAR sites of the selected site and the warnings are
\* requested again (loadWarnings returns at once when the box is unchecked)
DesktopMapReloadsMetar == ~IsNull(selectedSite) /\ metarMarkers # {}

DesktopMapReloadsWarnings == warningLayers # {} /\ showWarnings

ReinitializeDesktopMap ==
    /\ mapContainer' = "map"
    /\ metarSitesReq' = IF DesktopMapReloadsMetar
                          THEN AddTo(metarSitesReq, Val(selectedSite))
                          ELSE metarSitesReq
    /\ warningsReq' = IF DesktopMapReloadsWarnings
                        THEN warningsReq + 1 ELSE warningsReq
    /\ metarOnMap' = {}
    /\ UNCHANGED <<radarSites, metarMarkers, warningLayers>>

\* handleResize (app.js 32-51) after the window became narrow
\* (innerWidth <= 1024, mobile = TRUE) or wide
HandleResize(mobile) ==
    /\ isMobile' = mobile
    /\ IF mobile /\ mapContainer # "mobileMap"
         THEN /\ IF currentTab \in {"map", "controls"}
                   THEN /\ active' = SwitchMobileTabActive(active, "controls")
                        /\ currentTab' = "controls"
                   ELSE UNCHANGED <<active, currentTab>>
              /\ UNCHANGED <<mapState, metarSitesReq, warningsReq>>
         ELSE IF ~mobile /\ mapContainer = "mobileMap"
         THEN /\ DesktopMapReloadsMetar
                   => BagCardinality(metarSitesReq) < MaxMetarSitesPending
              /\ DesktopMapReloadsWarnings => warningsReq < MaxWarningsPending
              /\ ReinitializeDesktopMap
              /\ UNCHANGED <<active, currentTab>>
         ELSE UNCHANGED <<active, currentTab, mapState, metarSitesReq,
                          warningsReq>>
    /\ UNCHANGED <<selectedSite, metarData, stormMotion, vadDataLoaded, inputs,
                   buttons, statusDisplays, desktopDisplays, mobileDisplays,
                   lastMsg, calls, vadAuto, radarSitesReq, resets, engine,
                   units>>

\* SpecMap: the page without analysis calls, loaded in the wide layout.
\* Site selection, clicks on METAR markers, the Show Warnings box, resizes
\* and the mobile tab buttons, reset, and every response of their requests.
NextMap ==
    \/ \E ok \in BOOLEAN : RadarSitesResponse(ok)
    \/ \E site \in Sites : SelectRadarSite(site)
    \/ \E site \in Sites, o \in {"ok", "error", "reject"} :
           VadAutoResponse(site, o)
    \/ \E site \in Sites, o \in {"ok", "notlist", "reject"} :
           MetarSitesResponse(site, o)
    \/ \E l \in {Null} \cup { Some(w) : w \in WarningResponses } :
           WarningsResponse(l)
    \/ \E m \in MetarIds : ClickMetarMarker(m)
    \/ ToggleWarnings
    \/ \E mobile \in BOOLEAN : HandleResize(mobile)
    \/ \E b \in MobileTabBtns : ClickMobileTab(b)
    \/ ClickReset
    \/ \E o \in {"ok", "status", "reject"} : ResetResponse(o)

SpecMap == Init /\ [][NextMap]_vars

\* C21: from the completion of a reset to the next selectRadarSite, that is
\* while no site is selected, the plot button is disabled and no METAR
\* marker is on the map, whatever response arrives.
C21_NothingComesBackAfterReset ==
    IsNull(selectedSite) => plotBtnDisabled /\ metarOnMap = {}

\* C22: when the /api/reset request fails, by a rejected fetch or by a
\* status that is not OK, resetApplication leaves selectedSite, metarData,
\* stormMotion, the input fields, the buttons and the displays as they
\* were, shows an error message and hides the loading overlay.
C22_ResetClearsOnlyOnSuccess ==
    [][\A o \in {"status", "reject"} :
          ResetResponse(o) =>
              /\ UNCHANGED <<selectedSite, metarData, stormMotion>>
              /\ UNCHANGED <<metarStation, stormDirection, stormSpeed>>
              /\ UNCHANGED <<buttons, statusDisplays, desktopDisplays,
                             mobileDisplays>>
              /\ lastMsg' = "error"
              /\ "loadingOverlay" \notin active']_vars

\* the calls of the bag awaiting the fetch named pc
CallsAt(bag, pc) == { c \in BagToSet(bag) : c.pc = pc }

\* C23: a call sends its requests in the order VAD, METAR (only with a
\* METAR station entered), hodograph.  On its VAD response: with no error
\* and a site selected the next request is the METAR one if a station is
\* entered, else the hodograph one; otherwise the call ends without another
\* request and metarData, stormMotion, the displays and the tab state stay
\* as they were.  A hodograph request only follows a VAD or METAR response.
C23_RequestOrder ==
    [][/\ \A c \in CallsAt(calls, "vad"), o \in {"ok", "error", "reject"} :
            VadResponse(c, o) =>
               IF o = "ok" /\ ~IsNull(selectedSite)
               THEN IF TrimUpper(metarStation) # << >>
                    THEN /\ CallsAt(calls', "metar") # {}
                         /\ CallsAt(calls', "hodo") = {}
                    ELSE CallsAt(calls', "hodo") # {}
               ELSE /\ calls' = RemoveFrom(calls, c)
                    /\ UNCHANGED <<metarData, stormMotion, desktopDisplays,
                                   mobileDisplays, currentTab,
                                   hodographTabDisabled,
                                   mobileHodographTabDisabled>>
                    /\ active' \ {"loadingOverlay"} = active \ {"loadingOverlay"}
       /\ CallsAt(calls', "hodo") \ CallsAt(calls, "hodo") # {} =>
             /\ ~IsNull(selectedSite)
             /\ CallsAt(calls, "vad") \cup CallsAt(calls, "metar") # {}
             /\ CallsAt(calls', "vad") \cup CallsAt(calls', "metar") = {}
       /\ CallsAt(calls', "metar") \ CallsAt(calls, "metar") # {} =>
             CallsAt(calls, "vad") # {}]_vars

\* the call has asked for a METAR and got none
LookupFailed(c) == ~IsNull(c.station) /\ IsNull(c.metarInfo)

\* C24: a METAR lookup that fails (error object, rejected fetch, body that
\* does not parse) does not end the call: with a site selected the call
\* goes on to its hodograph request for that site, with metarData as it
\* was and without an error message, and the result of that request is
\* displayed when it arrives.
C24_MetarIsOptional ==
    [][/\ \A c \in CallsAt(calls, "metar"), how \in {"error", "reject"} :
            (MetarLookupFails(c, how) /\ ~IsNull(selectedSite)) =>
                /\ \E d \in CallsAt(calls', "hodo") :
                      /\ LookupFailed(d)
                      /\ Val(d.req).site_id = Val(selectedSite)
                      /\ calls' = AddTo(RemoveFrom(calls, c), d)
                /\ UNCHANGED <<lastMsg, metarData>>
                /\ "loadingOverlay" \in active'
       /\ \A c \in CallsAt(calls, "hodo") :
            (LookupFailed(c) /\ HodographResponse(c, "ok")
                             /\ ~IsNull(selectedSite)) =>
                /\ hodographDisplay' = "image"
                /\ ~hodographTabDisabled'
                /\ currentTab' = "hodograph"]_vars

\* the hodograph request of a call whose METAR lookup failed is under way
C24_Witness ==
    \E c \in Requested :
        /\ LookupFailed(c)
        /\ ~IsNull(selectedSite)
        /\ Val(c.req).site_id = Val(selectedSite)

\* a loadRadarSites, generateCompleteAnalysis or resetApplication call has
\* started and not yet completed
OverlayOperationInProgress ==
    radarSitesReq > 0 \/ calls # EmptyBag \/ resets > 0

\* C25: the loading overlay is active exactly while one of the operations
\* that show it is in progress: active from the start to the completion of
\* each, inactive when none is under way.
C25_OverlayWhileInProgress ==
    "loadingOverlay" \in active <=> OverlayOperationInProgress

\* C26: the desktop hodograph tab is enabled exactly when the hodograph
\* display holds a generated image; no image is shown while the tab is
\* disabled.
C26_TabEnabledIffImage ==
    ~hodographTabDisabled <=> hodographDisplay = "image"

(***************************************************************************)
(* The two layouts: tab buttons, panels and the resize handler.            *)
(***************************************************************************)
\* SpecTabs: both layouts.  The page loads narrow or wide; the user
\* resizes the window, clicks the tab buttons of the layout shown, selects
\* a site, runs analyses with the optional fields left empty, and resets.
\* The requests are answered; only the hodograph request may answer with
\* an error.
InitTabs == AppInit /\ EngineIdle /\ UnitsIdle

NextTabs ==
    \/ RadarSitesResponse(TRUE)
    \/ \E site \in Sites : SelectRadarSite(site)
    \/ \E site \in Sites : VadAutoResponse(site, "ok")
    \/ \E site \in Sites, o \in {"ok", "notlist"} : MetarSitesResponse(site, o)
    \/ \E w \in WarningResponses : WarningsResponse(Some(w))
    \/ \E b \in TabBtns : ClickTab(b)
    \/ \E b \in MobileTabBtns : ClickMobileTab(b)
    \/ \E mobile \in BOOLEAN : HandleResize(mobile)
    \/ ClickPlot
    \/ \E c \in BagToSet(calls) : VadResponse(c, "ok")
    \/ \E c \in BagToSet(calls), o \in {"ok", "error"} :
           HodographResponse(c, o)
    \/ ClickReset
    \/ ResetResponse("ok")

SpecTabs == InitTabs /\ [][NextTabs]_vars

\* the mobile panel of a tab name
MobilePanelOf(t) ==
    CASE t = "controls"  -> "controlsPanel"
      [] t = "map"       -> "mapPanel"
      [] t = "hodograph" -> "hodographPanel"

\* the active mobile panel and the only active mobile button are those of t
MobileShows(a, t) ==
    /\ a \cap MobilePanels = {MobilePanelOf(t)}
    /\ a \cap MobileTabBtns = {MobileBtnWithDataTab(t)}

\* C28: in every state exactly one desktop tab pane and exactly one mobile
\* panel carry the class active, and every step that runs switchMobileTab(t)
\* (a click on a mobile tab button, a resize to the narrow layout on the map
\* or controls tab, a successful analysis or a reset in the narrow layout)
\* ends with the panel and the button of t as the active mobile ones.
C28_OnePaneOnePanel ==
    /\ [](/\ Cardinality(active \cap TabPanes) = 1
          /\ Cardinality(active \cap MobilePanels) = 1)
    /\ [][/\ \A b \in MobileTabBtns :
                ClickMobileTab(b) => MobileShows(active', DataTab(b))
          /\ (HandleResize(TRUE) /\ mapContainer # "mobileMap"
                                 /\ currentTab \in {"map", "controls"})
                => MobileShows(active', "controls")
          /\ \A c \in CallsAt(calls, "hodo") :
                (HodographResponse(c, "ok") /\ isMobile
                                            /\ ~IsNull(selectedSite))
                    => MobileShows(active', "hodograph")
          /\ (ResetResponse("ok") /\ isMobile)
                => MobileShows(active', "controls")]_vars

\* after a resize from the wide to the narrow layout an analysis has
\* completed: switchMobileTab shows the mobile hodograph panel while the
\* desktop pane is still the map pane
C28_Witness ==
    /\ isMobile /\ mapContainer = "map"
    /\ currentTab = "hodograph"
    /\ "hodographPanel" \in active /\ "mapTab" \in active
    /\ hodographDisplay = "image"

\* the desktop tab button of a tab name
DesktopBtnOf(t) == IF t = "map" THEN "tabBtnMap" ELSE "hodographTab"

\* switchTab(t) has marked the desktop button of t and no other, and has left
\* the mobile buttons as they were
DesktopShows(a, b, t) ==
    /\ b \cap TabBtns = {DesktopBtnOf(t)}
    /\ b \cap MobileTabBtns = a \cap MobileTabBtns

\* C27: every step that runs switchTab(t) (a click on a desktop tab button,
\* a successful analysis or a reset in the wide layout) ends with the
\* desktop button of t as the only active desktop tab button, the mobile
\* tab buttons unchanged and currentTab = t.
C27_SwitchTabMarksDesktopButton ==
    [][/\ \A b \in TabBtns :
             ClickTab(b) => /\ DesktopShows(active, active', DataTab(b))
                            /\ currentTab' = DataTab(b)
       /\ \A c \in CallsAt(calls, "hodo") :
             (HodographResponse(c, "ok") /\ ~isMobile /\ ~IsNull(selectedSite))
                 => /\ DesktopShows(active, active', "hodograph")
                    /\ currentTab' = "hodograph"
       /\ (ResetResponse("ok") /\ ~isMobile)
             => /\ DesktopShows(active, active', "map")
                /\ currentTab' = "map"]_vars

\* C29: while the Show Warnings box is unchecked no warning layer is on the
\* map and warningLayers is empty, also when the response of a request
\* started while the box was checked arrives after it was unchecked; the
\* layers shown are those of one response.
C29_UncheckedMeansNoLayers ==
    /\ ~showWarnings => warningLayers = {}
    /\ warningLayers \in WarningResponses

=============================================================================
